---------------------------- MODULE Spec2Model ----------------------------
(***************************************************************************)
(* Task scheduling / availability engine of the task-scheduler backend.    *)
(*                                                                         *)
(* The store of Task rows, the 'availability' job queue and the calls of   *)
(* TasksService (create, update, reassign, remove) are modelled from       *)
(* backend/src/tasks.  Dates are points of a small time line, a DTO is a   *)
(* record of optional fields (<<>> = the key is absent, <<v>> = present),  *)
(* and the description field, which the code carries exactly like title,   *)
(* is left out.                                                            *)
(***************************************************************************)
EXTENDS Integers, Sequences, FiniteSets, TLC

VARIABLES
    tasks,      \* the tasks table: id -> row
    nextId,     \* the table's auto-increment counter
    queue,      \* jobs waiting in the 'availability' queue (user ids)
    last,       \* the call that has just been handled, until it returns
    inflight,   \* concurrent calls: where each stands between its awaits
    users,      \* the users table: its rows (id -> row) and its id counter
    gateway,    \* NotificationsGateway: sockets, connectedUsers, the last emit
    processed,  \* AvailabilityProcessor: what the job handled last returned
    notificationsStore  \* the client's store: notifications and unreadCount

vars == <<tasks, nextId, queue, last, inflight, users, gateway, processed, notificationsStore>>

-----------------------------------------------------------------------------
(* Bounds *)

MaxId == 2
MaxTime == 3
MaxUser == 2
MaxQueue == 2
MaxNow == 1
MaxProc == 2
MaxUserRow == 3
MaxSocket == 3
MaxNotif == 3

TaskIds == 1..MaxId
Times == 0..MaxTime
UserIds == 1..MaxUser
Procs == 1..MaxProc
Nows == 0..MaxNow          \* what the clock may read when a call validates
UserRowIds == 1..MaxUserRow
SocketIds == 1..MaxSocket
NotifIds == 1..MaxNotif

-----------------------------------------------------------------------------
(* Enumerations *)

IN_PROGRESS == "in_progress"
COMPLETED == "completed"
TaskStatus == {IN_PROGRESS, COMPLETED}

ADMIN == "admin"
MANAGER == "manager"
USER == "user"
UserRole == {ADMIN, MANAGER, USER}

TaskNotFoundException == "TaskNotFoundException"
TaskValidationException == "TaskValidationException"
TaskPermissionException == "TaskPermissionException"
TaskOperationException == "TaskOperationException"
TaskInfrastructureException == "TaskInfrastructureException"
QueueError == "QueueError"
GatewayError == "GatewayError"
NoError == "none"

NotFoundException == "NotFoundException"
BadRequestException == "BadRequestException"
ConflictException == "ConflictException"
ForbiddenException == "ForbiddenException"

Emails == {"a@x", "b@x"}

Titles == {"", "a"}

-----------------------------------------------------------------------------
(* Optional values and DTOs *)

Opt(S) == {<<>>} \cup {<<x>> : x \in S}
Present(o) == o /= <<>>

Fields == {"title", "status", "startDate", "endDate", "assignedUserId"}

Dto(t, st, s, e, u) ==
    [title |-> t, status |-> st, startDate |-> s, endDate |-> e,
     assignedUserId |-> u]

Keys(dto) == {f \in Fields : Present(dto[f])}

EmptyDto == Dto(<<>>, <<>>, <<>>, <<>>, <<>>)

(* What the environment lets fail during one call. *)
Env(q, n, o, w, r, m) ==
    [queue |-> q, notify |-> n, overlapQuery |-> o, write |-> w,
     reload |-> r, reloadMissing |-> m]

NoFault == Env(FALSE, FALSE, FALSE, FALSE, FALSE, FALSE)

-----------------------------------------------------------------------------
(* TaskRepositoryService / AvailabilityService *)

(* as hasOverlappingTasks, with half-open windows: a touching boundary is let through *)
hasOverlappingTasks_Strict(store, userId, startDate, endDate, excludeTaskId) ==
    LET byUser == {i \in DOMAIN store : store[i].assignedUserId = userId}
        active == {i \in byUser : store[i].status /= COMPLETED}
        inRange == {i \in active : /\ store[i].startDate < endDate
                                   /\ store[i].endDate > startDate}
        overlappingTasks ==
            IF Present(excludeTaskId)
            THEN {i \in inRange : i /= excludeTaskId[1]}
            ELSE inRange
    IN  Cardinality(overlappingTasks) > 0

hasOverlappingTasks(store, userId, startDate, endDate, excludeTaskId) ==
    LET byUser == {i \in DOMAIN store : store[i].assignedUserId = userId}
        active == {i \in byUser : store[i].status /= COMPLETED}
        inRange == {i \in active : /\ store[i].startDate <= endDate
                                   /\ store[i].endDate >= startDate}
        overlappingTasks ==
            IF Present(excludeTaskId)
            THEN {i \in inRange : i /= excludeTaskId[1]}
            ELSE inRange
    IN  Cardinality(overlappingTasks) > 0

checkOverlap(store, userId, startDate, endDate, excludeTaskId) ==
    hasOverlappingTasks(store, userId, startDate, endDate, excludeTaskId)

(* as overlapQuery, answering "no overlap" when the store fails *)
overlapQuery_FailsOpen(store, userId, startDate, endDate, excludeTaskId, env) ==
    [threw |-> FALSE,
     value |-> /\ ~env.overlapQuery
               /\ checkOverlap(store, userId, startDate, endDate, excludeTaskId)]

(* checkOverlap as a call can see it end: the query inside try/catch, a    *)
(* store failure rethrown as TaskInfrastructureException                   *)
overlapQuery(store, userId, startDate, endDate, excludeTaskId, env) ==
    [threw |-> env.overlapQuery,
     value |-> /\ ~env.overlapQuery
               /\ checkOverlap(store, userId, startDate, endDate, excludeTaskId)]

(* as repositoryCreate, behind a store constraint that refuses a row which *)
(* overlaps a non-completed row of the same user                           *)
repositoryCreate_Constrained(store, nid, row) ==
    IF row.status /= COMPLETED
       /\ hasOverlappingTasks(store, row.assignedUserId, row.startDate,
                              row.endDate, <<>>)
    THEN store
    ELSE store @@ (nid :> row)

(* create(taskData): INSERT, the id taken from the auto-increment counter *)
repositoryCreate(store, nid, row) == store @@ (nid :> row)

(* save(task): UPDATE of the row with the entity's id, INSERT if it is gone *)
repositorySave(store, id, row) ==
    [i \in DOMAIN store \cup {id} |-> IF i = id THEN row ELSE store[i]]

(* delete(id): findOne, then remove if found *)
repositoryDelete(store, id) == [i \in DOMAIN store \ {id} |-> store[i]]

(* The filter of a listing: optional status, assignedUserId and search,    *)
(* and the caller's role and id.  findAll never sets dateRange.            *)
TaskFilter(status, assignedUserId, search, currentUserRole, currentUserId) ==
    [status |-> status, assignedUserId |-> assignedUserId, search |-> search,
     currentUserRole |-> currentUserRole, currentUserId |-> currentUserId]

(* title LIKE '%search%', over titles and patterns of at most one character *)
Like(title, search) == search = "" \/ title = search

(* as findTasksWithComplexFilter, without the clause on the caller's role *)
findTasksWithComplexFilter_Unscoped(store, filter) ==
    LET byStatus == {i \in DOMAIN store :
                        Present(filter.status) => store[i].status = filter.status[1]}
        byUser == {i \in byStatus :
                      Present(filter.assignedUserId)
                      => store[i].assignedUserId = filter.assignedUserId[1]}
        bySearch == {i \in byUser :
                        (Present(filter.search) /\ filter.search[1] /= "")
                        => Like(store[i].title, filter.search[1])}
    IN  bySearch

(* the ids of the rows the query returns *)
findTasksWithComplexFilter(store, filter) ==
    LET byStatus == {i \in DOMAIN store :
                        Present(filter.status) => store[i].status = filter.status[1]}
        byUser == {i \in byStatus :
                      Present(filter.assignedUserId)
                      => store[i].assignedUserId = filter.assignedUserId[1]}
        byCaller == {i \in byUser :
                        filter.currentUserRole = USER
                        => store[i].assignedUserId = filter.currentUserId}
        bySearch == {i \in byCaller :
                        (Present(filter.search) /\ filter.search[1] /= "")
                        => Like(store[i].title, filter.search[1])}
    IN  bySearch

-----------------------------------------------------------------------------
(* TaskValidationDomain: each check yields "ok" or the reason it throws for *)

Trim(s) == IF s = " " THEN "" ELSE s

validateRequiredFields(dto) ==
    IF ~Present(dto.title) \/ Trim(dto.title[1]) = "" THEN "Task title is required"
    ELSE IF ~Present(dto.startDate) THEN "Start date is required"
    ELSE IF ~Present(dto.endDate) THEN "End date is required"
    ELSE IF ~Present(dto.assignedUserId) THEN "Assigned user is required"
    ELSE "ok"

(* as validateDateRange, refusing a start that is exactly the current time *)
validateDateRange_NowIsPast(startDate, endDate, now) ==
    IF startDate >= endDate THEN "Start date must be before end date"
    ELSE IF startDate <= now THEN "Start date cannot be in the past"
    ELSE "ok"

validateDateRange(startDate, endDate, now) ==
    IF startDate >= endDate THEN "Start date must be before end date"
    ELSE IF startDate < now THEN "Start date cannot be in the past"
    ELSE "ok"

validateTaskCreationData(dto, now) ==
    IF validateRequiredFields(dto) /= "ok" THEN validateRequiredFields(dto)
    ELSE validateDateRange(dto.startDate[1], dto.endDate[1], now)

(* as validateUserCanOnlyUpdateStatus, with title among the allowed fields *)
validateUserCanOnlyUpdateStatus_AllowsTitle(dto) ==
    LET allowedFields == {"status", "title"}
        restrictedFields == {f \in Keys(dto) : f \notin allowedFields}
    IN  IF Cardinality(restrictedFields) > 0
        THEN "Regular users can only update: status"
        ELSE "ok"

validateUserCanOnlyUpdateStatus(dto) ==
    LET allowedFields == {"status"}
        restrictedFields == {f \in Keys(dto) : f \notin allowedFields}
    IN  IF Cardinality(restrictedFields) > 0
        THEN "Regular users can only update: status"
        ELSE "ok"

validateTaskUpdatePermissions(task, dto, userRole, currentUserId) ==
    IF userRole = USER /\ task.assignedUserId /= currentUserId
    THEN "You can only update your own tasks"
    ELSE IF userRole = USER THEN validateUserCanOnlyUpdateStatus(dto)
    ELSE "ok"

validateTaskReassignmentData(dto) ==
    IF ~Present(dto.assignedUserId)
    THEN "Assigned user ID is required for reassignment"
    ELSE "ok"

-----------------------------------------------------------------------------
(* TaskDataPreparationDomain *)

requiresOverlapValidation(dto) ==
    Present(dto.assignedUserId) \/ Present(dto.startDate) \/ Present(dto.endDate)

(* as calculateEffectiveDateRange, taking the stored window whatever the request *)
calculateEffectiveDateRange_Stored(existingTask, dto) ==
    [startDate |-> existingTask.startDate, endDate |-> existingTask.endDate]

calculateEffectiveDateRange(existingTask, dto) ==
    [startDate |-> IF Present(dto.startDate) THEN dto.startDate[1]
                   ELSE existingTask.startDate,
     endDate |-> IF Present(dto.endDate) THEN dto.endDate[1]
                 ELSE existingTask.endDate]

(* requestingUserId is an optional argument: <<>> when the caller omits it *)
applyTaskReassignment(targetTask, dto, requestingUserId) ==
    [targetTask EXCEPT !.assignedUserId = dto.assignedUserId[1],
                       !.assignedById = requestingUserId]

-----------------------------------------------------------------------------
(* TaskBusinessLogicService: a Partial<Task> is a record of optional keys *)

Partial(t, st, s, e, u, b) ==
    [title |-> t, status |-> st, startDate |-> s, endDate |-> e,
     assignedUserId |-> u, assignedById |-> b]

ObjectAssign(task, updates) ==
    [f \in DOMAIN task |-> IF Present(updates[f]) THEN updates[f][1] ELSE task[f]]

buildTaskEntityForCreation(dto, creatorUserId) ==
    [title |-> dto.title[1],
     status |-> IF Present(dto.status) THEN dto.status[1] ELSE IN_PROGRESS,
     startDate |-> dto.startDate[1],
     endDate |-> dto.endDate[1],
     assignedUserId |-> dto.assignedUserId[1],
     assignedById |-> <<creatorUserId>>]

(* Yields the sparse updates and the entity as the call leaves it (the      *)
(* assignee change is written on the entity itself).                        *)
buildTaskEntityForUpdate(existingTask, dto, requestingUserId) ==
    [updates |-> Partial(dto.title, dto.status, dto.startDate, dto.endDate,
                         <<>>, <<>>),
     task |-> IF /\ Present(dto.assignedUserId)
                 /\ dto.assignedUserId[1] /= existingTask.assignedUserId
              THEN [existingTask EXCEPT
                        !.assignedUserId = dto.assignedUserId[1],
                        !.assignedById = <<requestingUserId>>]
              ELSE existingTask]

(* as buildTaskEntityForReassignment, without the assignedById entry *)
buildTaskEntityForReassignment_NoAssigner(targetTask, dto, requestingUserId) ==
    Partial(<<>>, <<>>, <<>>, <<>>, dto.assignedUserId, <<>>)

buildTaskEntityForReassignment(targetTask, dto, requestingUserId) ==
    Partial(<<>>, <<>>, <<>>, <<>>, dto.assignedUserId, <<(<<requestingUserId>>)>>)

-----------------------------------------------------------------------------
(* Side effects.  Each yields what it produced and whether it threw.        *)

(* as queueAvailabilityUpdate, without the try/catch around add() *)
queueAvailabilityUpdate_Rethrows(jobs, userId, env) ==
    IF env.queue
    THEN [jobs |-> jobs, threw |-> TRUE]
    ELSE [jobs |-> Append(jobs, userId), threw |-> FALSE]

queueAvailabilityUpdate(jobs, userId, env) ==
    IF env.queue
    THEN [jobs |-> jobs, threw |-> FALSE]        \* add() threw: caught, logged
    ELSE [jobs |-> Append(jobs, userId), threw |-> FALSE]

Note(event, to) == [event |-> event, to |-> to]

(* notifyUser(to, event, ..) inside try/catch *)
TryNotifyUser(notes, to, event, env) ==
    IF env.notify
    THEN [notes |-> notes, threw |-> FALSE]      \* notifyUser threw: caught, logged
    ELSE [notes |-> Append(notes, Note(event, to)), threw |-> FALSE]

notifyTaskCreated(notes, task, env) ==
    TryNotifyUser(notes, task.assignedUserId, "task:created", env)

notifyTaskCompleted(notes, task, env) ==
    IF ~Present(task.assignedById)
    THEN [notes |-> notes, threw |-> FALSE]
    ELSE TryNotifyUser(notes, task.assignedById[1], "task:completed", env)

notifyTaskReassigned(notes, task, oldAssignedUserId, env) ==
    IF task.assignedUserId = oldAssignedUserId
    THEN [notes |-> notes, threw |-> FALSE]
    ELSE TryNotifyUser(notes, task.assignedUserId, "task:reassigned", env)

(* as notifyTaskDeleted, addressed to the user who assigned the task *)
notifyTaskDeleted_ToAssigner(notes, task, env) ==
    IF ~Present(task.assignedById)
    THEN [notes |-> notes, threw |-> FALSE]
    ELSE TryNotifyUser(notes, task.assignedById[1], "task:deleted", env)

notifyTaskDeleted(notes, task, env) ==
    TryNotifyUser(notes, task.assignedUserId, "task:deleted", env)

(* as handleAvailabilityUpdates, enqueueing for the assignee whatever the request carries *)
handleAvailabilityUpdates_Always(dto, oldAssignedUserId, newAssignedUserId, env) ==
    LET first == queueAvailabilityUpdate(<<>>, newAssignedUserId, env)
    IN  IF oldAssignedUserId /= newAssignedUserId
        THEN queueAvailabilityUpdate(first.jobs, oldAssignedUserId, env)
        ELSE first

handleAvailabilityUpdates(dto, oldAssignedUserId, newAssignedUserId, env) ==
    LET touched == \/ Present(dto.startDate) \/ Present(dto.endDate)
                   \/ Present(dto.assignedUserId)
        first == IF touched
                 THEN queueAvailabilityUpdate(<<>>, newAssignedUserId, env)
                 ELSE [jobs |-> <<>>, threw |-> FALSE]
    IN  IF first.threw THEN first
        ELSE IF /\ Present(dto.assignedUserId)
                /\ oldAssignedUserId /= newAssignedUserId
             THEN queueAvailabilityUpdate(first.jobs, oldAssignedUserId, env)
             ELSE first

(* as handleUpdateNotifications, without the comparison against the old status *)
handleUpdateNotifications_AnyCompleted(task, dto, oldStatus, env) ==
    IF dto.status = <<COMPLETED>>
    THEN notifyTaskCompleted(<<>>, task, env)
    ELSE [notes |-> <<>>, threw |-> FALSE]

handleUpdateNotifications(task, dto, oldStatus, env) ==
    IF dto.status = <<COMPLETED>> /\ oldStatus /= COMPLETED
    THEN notifyTaskCompleted(<<>>, task, env)
    ELSE [notes |-> <<>>, threw |-> FALSE]

-----------------------------------------------------------------------------
(* TasksService: what one call does to the store, and what it returns.      *)

Out(error, reason, store, jobs, notes) ==
    [error |-> error, reason |-> reason, tasks |-> store,
     jobs |-> jobs, notes |-> notes]

OverlapReason == "User already has an overlapping task during this time period"

(* the tail of create: enqueue, reload, notify *)
CreateSideEffects(store2, nid, env) ==
    LET q == queueAvailabilityUpdate(<<>>, store2[nid].assignedUserId, env)
        n == notifyTaskCreated(<<>>, store2[nid], env)
    IN  IF q.threw
        THEN Out(QueueError, "queue", store2, q.jobs, <<>>)
        ELSE IF env.reload
        THEN Out(TaskInfrastructureException, "reload created task",
                 store2, q.jobs, <<>>)
        ELSE IF env.reloadMissing
        THEN Out(TaskOperationException, "task not found after operation",
                 store2, q.jobs, <<>>)
        ELSE Out(IF n.threw THEN GatewayError ELSE NoError, "",
                 store2, q.jobs, n.notes)

(* as CreateOutcome, with completed tasks still blocking the window *)
CreateOutcome_CountsCompleted(store, nid, dto, callerId, now, env) ==
    LET v == validateTaskCreationData(dto, now)
        allOpen == [i \in DOMAIN store |-> [store[i] EXCEPT !.status = IN_PROGRESS]]
    IN  IF v /= "ok"
        THEN Out(TaskValidationException, v, store, <<>>, <<>>)
        ELSE IF checkOverlap(allOpen, dto.assignedUserId[1], dto.startDate[1],
                             dto.endDate[1], <<>>)
        THEN Out(TaskValidationException, OverlapReason, store, <<>>, <<>>)
        ELSE CreateSideEffects(
                 repositoryCreate(store, nid,
                                  buildTaskEntityForCreation(dto, callerId)),
                 nid, env)

CreateOutcome(store, nid, dto, callerId, now, env) ==
    LET v == validateTaskCreationData(dto, now)
        hasOverlap == overlapQuery(store, dto.assignedUserId[1], dto.startDate[1],
                                   dto.endDate[1], <<>>, env)
    IN  IF v /= "ok"
        THEN Out(TaskValidationException, v, store, <<>>, <<>>)
        ELSE IF hasOverlap.threw
        THEN Out(TaskInfrastructureException, "check overlapping tasks",
                 store, <<>>, <<>>)
        ELSE IF hasOverlap.value
        THEN Out(TaskValidationException, OverlapReason, store, <<>>, <<>>)
        ELSE IF env.write
        THEN Out(TaskInfrastructureException, "create task",
                 store, <<>>, <<>>)
        ELSE CreateSideEffects(
                 repositoryCreate(store, nid,
                                  buildTaskEntityForCreation(dto, callerId)),
                 nid, env)

(* the tail of update: save, reload, enqueue, notify *)
UpdateSideEffects(store, id, saved, dto, oldAssignedUserId, oldStatus, env) ==
    LET store2 == repositorySave(store, id, saved)
        q == handleAvailabilityUpdates(dto, oldAssignedUserId,
                                       saved.assignedUserId, env)
        n == handleUpdateNotifications(saved, dto, oldStatus, env)
    IN  IF env.write
        THEN Out(TaskInfrastructureException, "save task",
                 store, <<>>, <<>>)
        ELSE IF env.reload
        THEN Out(TaskInfrastructureException, "reload updated task",
                 store2, <<>>, <<>>)
        ELSE IF env.reloadMissing
        THEN Out(TaskOperationException, "task not found after operation",
                 store2, <<>>, <<>>)
        ELSE IF q.threw
        THEN Out(QueueError, "queue", store2, q.jobs, <<>>)
        ELSE Out(IF n.threw THEN GatewayError ELSE NoError, "",
                 store2, q.jobs, n.notes)

UpdateOutcome(store, id, dto, callerId, role, env) ==
    IF id \notin DOMAIN store
    THEN Out(TaskNotFoundException, "not found", store, <<>>, <<>>)
    ELSE
    LET task == store[id]
        perm == validateTaskUpdatePermissions(task, dto, role, callerId)
        range == calculateEffectiveDateRange(task, dto)
        checkedUser == IF Present(dto.assignedUserId)
                       THEN dto.assignedUserId[1] ELSE task.assignedUserId
        oldAssignedUserId == task.assignedUserId
        oldStatus == task.status
        built == buildTaskEntityForUpdate(task, dto, callerId)
        hasOverlap == overlapQuery(store, checkedUser, range.startDate,
                                   range.endDate, <<id>>, env)
    IN  IF perm /= "ok"
        THEN Out(TaskPermissionException, perm, store, <<>>, <<>>)
        ELSE IF requiresOverlapValidation(dto) /\ hasOverlap.threw
        THEN Out(TaskInfrastructureException, "check overlapping tasks",
                 store, <<>>, <<>>)
        ELSE IF requiresOverlapValidation(dto) /\ hasOverlap.value
        THEN Out(TaskValidationException, OverlapReason, store, <<>>, <<>>)
        ELSE UpdateSideEffects(store, id,
                               ObjectAssign(built.task, built.updates),
                               dto, oldAssignedUserId, oldStatus, env)

(* the tail of reassign: save, enqueue, reload, notify *)
ReassignSideEffects(store, id, saved, oldAssignedUserId, env) ==
    LET store2 == repositorySave(store, id, saved)
        q1 == queueAvailabilityUpdate(<<>>, saved.assignedUserId, env)
        q == IF ~q1.threw /\ oldAssignedUserId /= saved.assignedUserId
             THEN queueAvailabilityUpdate(q1.jobs, oldAssignedUserId, env)
             ELSE q1
        n == notifyTaskReassigned(<<>>, saved, oldAssignedUserId, env)
    IN  IF env.write
        THEN Out(TaskInfrastructureException, "save task", store, <<>>, <<>>)
        ELSE IF q.threw
        THEN Out(QueueError, "queue", store2, q.jobs, <<>>)
        ELSE IF env.reload
        THEN Out(TaskInfrastructureException, "reload reassigned task",
                 store2, q.jobs, <<>>)
        ELSE IF env.reloadMissing
        THEN Out(TaskOperationException, "task not found after operation",
                 store2, q.jobs, <<>>)
        ELSE Out(IF n.threw THEN GatewayError ELSE NoError, "",
                 store2, q.jobs, n.notes)

(* as ReassignOutcome, saving the reassigned entity before the overlap check *)
ReassignOutcome_SavesFirst(store, id, dto, callerId, env) ==
    IF id \notin DOMAIN store
    THEN Out(TaskNotFoundException, "not found", store, <<>>, <<>>)
    ELSE
    LET loaded == store[id]
        v == validateTaskReassignmentData(dto)
        task == applyTaskReassignment(loaded, dto, <<>>)
        updates == buildTaskEntityForReassignment(task, dto, callerId)
        store2 == [store EXCEPT ![id] = ObjectAssign(task, updates)]
    IN  IF v /= "ok"
        THEN Out(TaskValidationException, v, store, <<>>, <<>>)
        ELSE IF checkOverlap(store, dto.assignedUserId[1], loaded.startDate,
                             loaded.endDate, <<id>>)
        THEN Out(TaskValidationException, OverlapReason, store2, <<>>, <<>>)
        ELSE ReassignSideEffects(store, id, ObjectAssign(task, updates),
                                 task.assignedUserId, env)

ReassignOutcome(store, id, dto, callerId, env) ==
    IF id \notin DOMAIN store
    THEN Out(TaskNotFoundException, "not found", store, <<>>, <<>>)
    ELSE
    LET loaded == store[id]
        v == validateTaskReassignmentData(dto)
        \* prepareTaskReassignment hands back the entity it has already
        \* reassigned; reassign() reads the "old" assignee from that entity
        task == applyTaskReassignment(loaded, dto, <<>>)
        oldAssignedUserId == task.assignedUserId
        updates == buildTaskEntityForReassignment(task, dto, callerId)
        hasOverlap == overlapQuery(store, dto.assignedUserId[1], loaded.startDate,
                                   loaded.endDate, <<id>>, env)
    IN  IF v /= "ok"
        THEN Out(TaskValidationException, v, store, <<>>, <<>>)
        ELSE IF hasOverlap.threw
        THEN Out(TaskInfrastructureException, "check overlapping tasks",
                 store, <<>>, <<>>)
        ELSE IF hasOverlap.value
        THEN Out(TaskValidationException, OverlapReason, store, <<>>, <<>>)
        ELSE ReassignSideEffects(store, id, ObjectAssign(task, updates),
                                 oldAssignedUserId, env)

RemoveOutcome(store, id, env) ==
    IF id \notin DOMAIN store
    THEN Out(TaskNotFoundException, "not found", store, <<>>, <<>>)
    ELSE
    LET task == store[id]
        assignedUserId == task.assignedUserId
        store2 == repositoryDelete(store, id)
        q == queueAvailabilityUpdate(<<>>, assignedUserId, env)
        n == notifyTaskDeleted(<<>>, task, env)
    IN  IF env.write
        THEN Out("Error", "delete task", store, <<>>, <<>>)
        ELSE IF q.threw
        THEN Out(QueueError, "queue", store2, q.jobs, <<>>)
        ELSE Out(IF n.threw THEN GatewayError ELSE NoError, "",
                 store2, q.jobs, n.notes)

-----------------------------------------------------------------------------
(* UsersService and UsersController.  A user row is its email and role     *)
(* (name and password hash play no part in any rule).                      *)

UserRow(email, role) == [email |-> email, role |-> role]

UserDto(email, role) == [email |-> email, role |-> role]

UsersTable(rows, seq) == [rows |-> rows, nextId |-> seq]

(* SetupService: the application does not start without an admin user *)
SeededUsers == UsersTable(<<UserRow("a@x", ADMIN)>>, 2)

UsersOut(error, table) == [error |-> error, users |-> table]

findByEmail(table, email) ==
    {i \in DOMAIN table.rows : table.rows[i].email = email}

(* UsersService.create(createUserDto, currentUserRole) *)
UsersCreateOutcome(table, dto, currentUserRole) ==
    LET role == IF currentUserRole = MANAGER THEN USER
                ELSE IF Present(dto.role) THEN dto.role[1] ELSE USER
    IN  IF currentUserRole = MANAGER /\ Present(dto.role) /\ dto.role[1] /= USER
        THEN UsersOut(BadRequestException, table)
        ELSE IF findByEmail(table, dto.email[1]) /= {}
        THEN UsersOut(ConflictException, table)
        ELSE UsersOut(NoError,
                      UsersTable(table.rows @@ (table.nextId :> UserRow(dto.email[1], role)),
                                 table.nextId + 1))

(* as UsersServiceUpdate, without the lookup of the new email *)
UsersServiceUpdate_NoEmailCheck(table, id, dto) ==
    IF id \notin DOMAIN table.rows
    THEN UsersOut(NotFoundException, table)
    ELSE
    LET user == table.rows[id]
    IN  UsersOut(NoError,
                 [table EXCEPT !.rows[id] =
                     UserRow(IF Present(dto.email) THEN dto.email[1] ELSE user.email,
                             IF Present(dto.role) THEN dto.role[1] ELSE user.role)])

(* UsersService.update(id, updateUserDto) *)
UsersServiceUpdate(table, id, dto) ==
    IF id \notin DOMAIN table.rows
    THEN UsersOut(NotFoundException, table)
    ELSE
    LET user == table.rows[id]
    IN  IF /\ Present(dto.email) /\ dto.email[1] /= user.email
           /\ findByEmail(table, dto.email[1]) /= {}
        THEN UsersOut(ConflictException, table)
        ELSE UsersOut(NoError,
                      [table EXCEPT !.rows[id] =
                          UserRow(IF Present(dto.email) THEN dto.email[1] ELSE user.email,
                                  IF Present(dto.role) THEN dto.role[1] ELSE user.role)])

(* UsersController.update: the manager check, then UsersService.update *)
UsersUpdateOutcome(table, id, dto, currentUserRole) ==
    IF currentUserRole = MANAGER /\ id \notin DOMAIN table.rows
    THEN UsersOut(NotFoundException, table)
    ELSE IF currentUserRole = MANAGER /\ table.rows[id].role \in {ADMIN, MANAGER}
    THEN UsersOut(ForbiddenException, table)
    ELSE UsersServiceUpdate(table, id, dto)

(* as UsersRemoveOutcome, refusing an admin target only to callers who are not admins *)
UsersRemoveOutcome_AdminsDeleteAdmins(table, id, currentUserRole) ==
    IF id \notin DOMAIN table.rows
    THEN UsersOut(NotFoundException, table)
    ELSE IF table.rows[id].role = ADMIN /\ currentUserRole /= ADMIN
    THEN UsersOut(BadRequestException, table)
    ELSE IF currentUserRole = MANAGER /\ table.rows[id].role = MANAGER
    THEN UsersOut(BadRequestException, table)
    ELSE UsersOut(NoError,
                  [table EXCEPT !.rows = [i \in DOMAIN table.rows \ {id} |->
                                             table.rows[i]]])

(* UsersService.remove(id, currentUserRole) *)
UsersRemoveOutcome(table, id, currentUserRole) ==
    IF id \notin DOMAIN table.rows
    THEN UsersOut(NotFoundException, table)
    ELSE IF table.rows[id].role = ADMIN
    THEN UsersOut(BadRequestException, table)
    ELSE IF currentUserRole = MANAGER /\ table.rows[id].role = MANAGER
    THEN UsersOut(BadRequestException, table)
    ELSE UsersOut(NoError,
                  [table EXCEPT !.rows = [i \in DOMAIN table.rows \ {id} |->
                                             table.rows[i]]])

(* tasks.assigned_user_id and assigned_by_id: ON DELETE SET NULL (0 is NULL) *)
OnDeleteSetNull(store, table) ==
    [i \in DOMAIN store |->
        [store[i] EXCEPT
            !.assignedUserId = IF @ \in DOMAIN table.rows THEN @ ELSE 0,
            !.assignedById = IF @ /= <<>> /\ @[1] \in DOMAIN table.rows
                             THEN @ ELSE <<>>]]

-----------------------------------------------------------------------------
(* AvailabilityProcessor *)

(* what the handler returned, for which user, and where in the queue the   *)
(* job it was given stood                                                   *)
JobResult(userId, taskCount, position) == [userId |-> userId, taskCount |-> taskCount, position |-> position]

NoJob == JobResult(0, 0, 0)

(* find({where: {assignedUserId}, order: {startDate}}): only the number of *)
(* rows is used, so the rows are given as the set of their ids              *)
getUserTasksForAvailability(store, userId) ==
    {i \in DOMAIN store : store[i].assignedUserId = userId}

getUserTasks(store, userId) == getUserTasksForAvailability(store, userId)

(* as handleUpdateAvailabilityOutcome, clearing away the user's completed tasks *)
handleUpdateAvailabilityOutcome_Prunes(store, userId, position) ==
    LET kept == {i \in DOMAIN store : ~(/\ store[i].assignedUserId = userId
                                        /\ store[i].status = COMPLETED)}
    IN  [tasks |-> [i \in kept |-> store[i]],
         result |-> JobResult(userId, Cardinality(getUserTasks(store, userId)), position)]

(* handleUpdateAvailability(job): the table it leaves and what it returns *)
handleUpdateAvailabilityOutcome(store, userId, position) ==
    [tasks |-> store,
     result |-> JobResult(userId, Cardinality(getUserTasks(store, userId)), position)]

-----------------------------------------------------------------------------
(* The client's notification store (stores/notifications.ts) *)

(* a notification is its id and its read flag; type, message, task and     *)
(* timestamp are never read by the store                                   *)
Notification(id, read) == [id |-> id, read |-> read]

Store(notifications, unreadCount) == [notifications |-> notifications, unreadCount |-> unreadCount]

EmptyStore == Store(<<>>, 0)

Max(a, b) == IF a >= b THEN a ELSE b

(* notifications.find / findIndex: the first position with the id, 0 if none *)
findIndex(notifications, id) ==
    IF \E k \in DOMAIN notifications : notifications[k].id = id
    THEN CHOOSE k \in DOMAIN notifications :
             /\ notifications[k].id = id
             /\ \A j \in 1..(k - 1) : notifications[j].id /= id
    ELSE 0

(* splice(index, 1) *)
Splice(notifications, index) ==
    [i \in 1..(Len(notifications) - 1) |->
        IF i < index THEN notifications[i] ELSE notifications[i + 1]]

(* the id is built from Date.now() and Math.random(): any id *)
addNotification(st, id) ==
    Store(<<Notification(id, FALSE)>> \o st.notifications, st.unreadCount + 1)

markAsRead(st, id) ==
    LET k == findIndex(st.notifications, id)
    IN  IF k /= 0 /\ ~st.notifications[k].read
        THEN Store([st.notifications EXCEPT ![k].read = TRUE],
                   Max(0, st.unreadCount - 1))
        ELSE st

markAllAsRead(st) ==
    Store([k \in DOMAIN st.notifications |-> [st.notifications[k] EXCEPT !.read = TRUE]], 0)

(* as removeNotification, counting down whether or not the notification was read *)
removeNotification_AlwaysCounts(st, id) ==
    LET index == findIndex(st.notifications, id)
    IN  IF index /= 0
        THEN Store(Splice(st.notifications, index), Max(0, st.unreadCount - 1))
        ELSE st

removeNotification(st, id) ==
    LET index == findIndex(st.notifications, id)
    IN  IF index /= 0
        THEN Store(Splice(st.notifications, index),
                   IF ~st.notifications[index].read
                   THEN Max(0, st.unreadCount - 1) ELSE st.unreadCount)
        ELSE st

clearAll(st) == Store(<<>>, 0)

-----------------------------------------------------------------------------
(* NotificationsGateway.  A socket is what the gateway can see of it: is   *)
(* it open, the token of its handshake, the userId stored on it, and the   *)
(* rooms it has joined (the room user:<id> is written as the id).          *)

Jwt(valid, sub) == [valid |-> valid, sub |-> sub]

(* handshake.auth.token || handshake.query.token: absent, or a token,      *)
(* signed by this server or not, with or without a sub                     *)
HandshakeTokens == Opt({Jwt(valid, sub) : valid \in BOOLEAN, sub \in Opt(UserIds)})

Socket(open, token, userId, rooms) ==
    [open |-> open, token |-> token, userId |-> userId, rooms |-> rooms]

Emit(to, event, sockets) == [to |-> to, event |-> event, sockets |-> sockets]

Gateway(sockets, connectedUsers, emitted) ==
    [sockets |-> sockets, connectedUsers |-> connectedUsers, emitted |-> emitted]

NoConnections ==
    Gateway([s \in SocketIds |-> Socket(FALSE, <<>>, <<>>, {})], <<>>, Emit(0, "", {}))

(* client.disconnect(): the socket closes and leaves its rooms; the        *)
(* handleDisconnect that follows finds no userId on a refused client       *)
Refused(gw, s, client) ==
    [gw EXCEPT !.sockets[s] = [client EXCEPT !.open = FALSE, !.rooms = {}]]

(* as handleConnection, taking the payload of a token without verifying it *)
handleConnection_Unverified(gw, s, token) ==
    LET client == Socket(TRUE, token, <<>>, {})
    IN  IF ~Present(token) THEN Refused(gw, s, client)
        ELSE
        LET authed == [client EXCEPT !.userId = token[1].sub]
        IN  IF ~Present(authed.userId) THEN Refused(gw, s, authed)
            ELSE [gw EXCEPT
                     !.sockets[s] = [authed EXCEPT !.rooms = {authed.userId[1]}],
                     !.connectedUsers = (authed.userId[1] :> s) @@ gw.connectedUsers]

(* handleConnection(client): jwtService.verify throws on a token that is   *)
(* not valid, which the catch answers with client.disconnect()             *)
handleConnection(gw, s, token) ==
    LET client == Socket(TRUE, token, <<>>, {})
    IN  IF ~Present(token) THEN Refused(gw, s, client)
        ELSE IF ~token[1].valid THEN Refused(gw, s, client)
        ELSE
        LET authed == [client EXCEPT !.userId = token[1].sub]
        IN  IF ~Present(authed.userId) THEN Refused(gw, s, authed)
            ELSE [gw EXCEPT
                     !.sockets[s] = [authed EXCEPT !.rooms = {authed.userId[1]}],
                     !.connectedUsers = (authed.userId[1] :> s) @@ gw.connectedUsers]

(* handleDisconnect(client); the closed socket has left its rooms *)
handleDisconnect(gw, s) ==
    LET client == gw.sockets[s]
    IN  [gw EXCEPT
            !.sockets[s] = [client EXCEPT !.open = FALSE, !.rooms = {}],
            !.connectedUsers =
                IF Present(client.userId)
                THEN [u \in DOMAIN gw.connectedUsers \ {client.userId[1]} |->
                         gw.connectedUsers[u]]
                ELSE gw.connectedUsers]

(* notifyUser(userId, event, data): server.to(room).emit reaches the       *)
(* sockets that are in the room                                             *)
notifyUser(gw, userId, event) ==
    [gw EXCEPT !.emitted =
        Emit(userId, event,
             {gw.sockets[s] : s \in {x \in SocketIds : /\ gw.sockets[x].open
                                                       /\ userId \in gw.sockets[x].rooms}})]

-----------------------------------------------------------------------------
(* The calls.  One call is handled at a time; its request and outcome stay  *)
(* in `last` until the response is returned.                                *)

Call(op, id, dto, callerId, role, now, env, o) ==
    [op |-> op, id |-> id, dto |-> dto, callerId |-> callerId, role |-> role,
     now |-> now, env |-> env, pre |-> tasks,
     error |-> o.error, reason |-> o.reason, jobs |-> o.jobs, notes |-> o.notes,
     arg |-> <<>>, result |-> {}, preUsers |-> users]

Idle ==
    [op |-> "none", id |-> 0, dto |-> EmptyDto, callerId |-> 0, role |-> "none",
     now |-> 0, env |-> NoFault, pre |-> <<>>,
     error |-> NoError, reason |-> "", jobs |-> <<>>, notes |-> <<>>,
     arg |-> <<>>, result |-> {}, preUsers |-> <<>>]

(* A call in flight: its request, where it stands (pc), the entity it      *)
(* holds, the values it captured, what it has produced so far, and (log)   *)
(* the overlap queries, writes, enqueues and notifications it has issued,  *)
(* in the order it issued them.                                            *)
Ctx(op, pc, id, dto, callerId, role, task, oldUser, oldStatus, jobs, notes, error, reason) ==
    [op |-> op, pc |-> pc, id |-> id, dto |-> dto, callerId |-> callerId,
     role |-> role, task |-> task, oldAssignedUserId |-> oldUser,
     oldStatus |-> oldStatus, jobs |-> jobs, notes |-> notes,
     error |-> error, reason |-> reason, log |-> <<>>]

IdleCtx ==
    Ctx("none", "idle", 0, EmptyDto, 0, "none", <<>>, 0, "none", <<>>, <<>>,
        NoError, "")

CanCall == last.op = "none" /\ Len(queue) + 2 <= MaxQueue

Create(dto, callerId, now, env) ==
    /\ CanCall
    /\ nextId <= MaxId
    /\ LET o == CreateOutcome(tasks, nextId, dto, callerId, now, env)
       IN  /\ tasks' = o.tasks
           /\ nextId' = IF nextId \in DOMAIN o.tasks THEN nextId + 1 ELSE nextId
           /\ queue' = queue \o o.jobs
           /\ last' = Call("create", nextId, dto, callerId, "none", now, env, o)
    /\ UNCHANGED <<inflight, users, gateway, processed, notificationsStore>>

Update(id, dto, callerId, role, env) ==
    /\ CanCall
    /\ LET o == UpdateOutcome(tasks, id, dto, callerId, role, env)
       IN  /\ tasks' = o.tasks
           /\ queue' = queue \o o.jobs
           /\ last' = Call("update", id, dto, callerId, role, 0, env, o)
    /\ UNCHANGED <<nextId, inflight, users, gateway, processed, notificationsStore>>

Reassign(id, dto, callerId, env) ==
    /\ CanCall
    /\ LET o == ReassignOutcome(tasks, id, dto, callerId, env)
       IN  /\ tasks' = o.tasks
           /\ queue' = queue \o o.jobs
           /\ last' = Call("reassign", id, dto, callerId, "none", 0, env, o)
    /\ UNCHANGED <<nextId, inflight, users, gateway, processed, notificationsStore>>

Remove(id, env) ==
    /\ CanCall
    /\ LET o == RemoveOutcome(tasks, id, env)
       IN  /\ tasks' = o.tasks
           /\ queue' = queue \o o.jobs
           /\ last' = Call("remove", id, EmptyDto, 0, "none", 0, env, o)
    /\ UNCHANGED <<nextId, inflight, users, gateway, processed, notificationsStore>>

(* TasksController.findAll -> TasksService.findAll -> findTasks *)
FindAll(status, assignedUserId, search, role, callerId) ==
    /\ last.op = "none"
    /\ LET filter == TaskFilter(status, assignedUserId, search, role, callerId)
       IN  last' = [Call("findAll", 0, EmptyDto, callerId, role, 0, NoFault,
                         Out(NoError, "", tasks, <<>>, <<>>))
                    EXCEPT !.arg = filter,
                           !.result = findTasksWithComplexFilter(tasks, filter)]
    /\ UNCHANGED <<tasks, nextId, queue, inflight, users, gateway, processed, notificationsStore>>

UserCall(op, id, dto, role, o) ==
    [Call(op, id, EmptyDto, 0, role, 0, NoFault,
          Out(o.error, "", tasks, <<>>, <<>>)) EXCEPT !.arg = dto]

UsersCreate(dto, role) ==
    /\ last.op = "none"
    /\ users.nextId <= MaxUserRow
    /\ LET o == UsersCreateOutcome(users, dto, role)
       IN  /\ users' = o.users
           /\ last' = UserCall("users.create", users.nextId, dto, role, o)
    /\ UNCHANGED <<tasks, nextId, queue, inflight, gateway, processed, notificationsStore>>

UsersUpdate(id, dto, role) ==
    /\ last.op = "none"
    /\ LET o == UsersUpdateOutcome(users, id, dto, role)
       IN  /\ users' = o.users
           /\ last' = UserCall("users.update", id, dto, role, o)
    /\ UNCHANGED <<tasks, nextId, queue, inflight, gateway, processed, notificationsStore>>

UsersRemove(id, role) ==
    /\ last.op = "none"
    /\ LET o == UsersRemoveOutcome(users, id, role)
       IN  /\ users' = o.users
           /\ tasks' = OnDeleteSetNull(tasks, o.users)
           /\ last' = UserCall("users.remove", id, UserDto(<<>>, <<>>), role, o)
    /\ UNCHANGED <<nextId, queue, inflight, gateway, processed, notificationsStore>>

Return ==
    /\ last.op /= "none"
    /\ last' = Idle
    /\ UNCHANGED <<tasks, nextId, queue, inflight, users, gateway, processed, notificationsStore>>

(* AvailabilityProcessor: takes a job, reads the user's tasks, logs *)
handleUpdateAvailability ==
    /\ queue /= <<>>
    /\ queue' = Tail(queue)
    /\ UNCHANGED <<tasks, nextId, last, inflight, users, gateway, processed, notificationsStore>>

-----------------------------------------------------------------------------
(* Initial state: an empty table, an empty queue, no call in progress *)

Init ==
    /\ tasks = <<>>
    /\ nextId = 1
    /\ queue = <<>>
    /\ last = Idle
    /\ inflight = [p \in Procs |-> IdleCtx]
    /\ users = SeededUsers
    /\ gateway = NoConnections
    /\ processed = NoJob
    /\ notificationsStore = EmptyStore

-----------------------------------------------------------------------------
(* Spec: the scheduling core.  Calls arrive one at a time from one         *)
(* privileged caller; windows, assignees and statuses range freely.        *)

ReassignDtos == {Dto(<<>>, <<>>, <<>>, <<>>, u) : u \in Opt(UserIds)}

SchedCreateDtos ==
    {Dto(<<"a">>, st, <<s>>, <<e>>, <<u>>) :
        st \in Opt(TaskStatus), s \in Times, e \in Times, u \in UserIds}

SchedUpdateDtos ==
    {d \in {Dto(<<>>, st, s, e, u) :
                st \in Opt(TaskStatus), s \in Opt(Times), e \in Opt(Times),
                u \in Opt(UserIds)} : Cardinality(Keys(d)) <= 2}

SchedCreate ==
    /\ CanCall
    /\ \E dto \in SchedCreateDtos, now \in Nows :
           Create(dto, MaxUser, now, NoFault)

SchedUpdate ==
    /\ CanCall
    /\ \E id \in TaskIds, dto \in SchedUpdateDtos :
           Update(id, dto, MaxUser, ADMIN, NoFault)

SchedReassign ==
    /\ CanCall
    /\ \E id \in TaskIds, dto \in ReassignDtos :
           Reassign(id, dto, MaxUser, NoFault)

SchedRemove ==
    /\ CanCall
    /\ \E id \in TaskIds : Remove(id, NoFault)

Next ==
    \/ SchedCreate
    \/ SchedUpdate
    \/ SchedReassign
    \/ SchedRemove
    \/ Return
    \/ handleUpdateAvailability

Spec == Init /\ [][Next]_vars

-----------------------------------------------------------------------------
(* SpecCallers: who calls.  Callers of every id and role, requests with    *)
(* every combination of keys (malformed ones included), one window.        *)

CallersCreateDtos ==
    {Dto(t, st, s, e, u) :
        t \in Opt({"", " ", "a"}), st \in Opt(TaskStatus),
        s \in Opt({0, MaxTime}), e \in Opt({0, MaxTime}), u \in Opt(UserIds)}

CallersUpdateDtos ==
    {Dto(t, st, s, e, u) :
        t \in Opt(Titles), st \in Opt(TaskStatus),
        s \in Opt({0}), e \in Opt({MaxTime}), u \in Opt(UserIds)}

CallersCreate ==
    /\ CanCall
    /\ \E dto \in CallersCreateDtos, c \in UserIds, now \in Nows :
           Create(dto, c, now, NoFault)

CallersUpdate ==
    /\ CanCall
    /\ \E id \in TaskIds, dto \in CallersUpdateDtos, c \in UserIds,
          r \in UserRole :
           Update(id, dto, c, r, NoFault)

CallersReassign ==
    /\ CanCall
    /\ \E id \in TaskIds, dto \in ReassignDtos, c \in UserIds :
           Reassign(id, dto, c, NoFault)

NextCallers ==
    \/ CallersCreate
    \/ CallersUpdate
    \/ CallersReassign
    \/ SchedRemove
    \/ Return
    \/ handleUpdateAvailability

SpecCallers == Init /\ [][NextCallers]_vars

-----------------------------------------------------------------------------
(* SpecFaults: an unreliable environment.  Any of the queue, the gateway   *)
(* and the store's query, write and reload may fail during a call.         *)

Envs ==
    {Env(q, n, o, w, r, m) :
        q \in BOOLEAN, n \in BOOLEAN, o \in BOOLEAN, w \in BOOLEAN,
        r \in BOOLEAN, m \in BOOLEAN}

FaultsCreateDtos ==
    {Dto(<<"a">>, <<>>, <<0>>, <<MaxTime>>, <<u>>) : u \in UserIds}

FaultsUpdateDtos ==
    {Dto(<<>>, st, <<>>, <<>>, u) : st \in Opt(TaskStatus), u \in Opt(UserIds)}

FaultsCreate ==
    /\ CanCall
    /\ \E dto \in FaultsCreateDtos, env \in Envs :
           Create(dto, MaxUser, 0, env)

FaultsUpdate ==
    /\ CanCall
    /\ \E id \in TaskIds, dto \in FaultsUpdateDtos, env \in Envs :
           Update(id, dto, MaxUser, ADMIN, env)

FaultsReassign ==
    /\ CanCall
    /\ \E id \in TaskIds, dto \in ReassignDtos, env \in Envs :
           Reassign(id, dto, MaxUser, env)

FaultsRemove ==
    /\ CanCall
    /\ \E id \in TaskIds, env \in Envs : Remove(id, env)

NextFaults ==
    \/ FaultsCreate
    \/ FaultsUpdate
    \/ FaultsReassign
    \/ FaultsRemove
    \/ Return
    \/ handleUpdateAvailability

SpecFaults == Init /\ [][NextFaults]_vars

-----------------------------------------------------------------------------
(* SpecListing: listings.  Tasks of several users, statuses and titles are *)
(* created, edited and removed; callers of every id and role list them     *)
(* under every combination of filters.                                     *)

ListingCreateDtos ==
    {Dto(<<"a">>, st, <<0>>, <<MaxTime>>, <<u>>) :
        st \in Opt(TaskStatus), u \in UserIds}

ListingUpdateDtos ==
    {Dto(<<"">>, <<>>, <<>>, <<>>, <<>>)}
    \cup {Dto(<<>>, <<st>>, <<>>, <<>>, <<>>) : st \in TaskStatus}

ListingCreate ==
    /\ CanCall
    /\ \E dto \in ListingCreateDtos : Create(dto, MaxUser, 0, NoFault)

ListingUpdate ==
    /\ CanCall
    /\ \E id \in TaskIds, dto \in ListingUpdateDtos :
           Update(id, dto, MaxUser, ADMIN, NoFault)

ListingFindAll ==
    /\ last.op = "none"
    /\ \E status \in Opt(TaskStatus), assignedUserId \in Opt(UserIds),
          search \in Opt({"", "a", "b"}), role \in UserRole, c \in UserIds :
           FindAll(status, assignedUserId, search, role, c)

NextListing ==
    \/ ListingCreate
    \/ ListingUpdate
    \/ ListingFindAll
    \/ SchedRemove
    \/ Return
    \/ handleUpdateAvailability

SpecListing == Init /\ [][NextListing]_vars

-----------------------------------------------------------------------------
(* SpecUsers: user management.  Callers of every role create, edit and     *)
(* remove users; tasks are assigned to users that exist.                   *)

UsersCreateDtos ==
    {UserDto(<<e>>, r) : e \in Emails, r \in Opt(UserRole)}

UsersUpdateDtos ==
    {UserDto(e, r) : e \in Opt(Emails), r \in Opt(UserRole)}

UsersCreateCall ==
    /\ last.op = "none"
    /\ \E dto \in UsersCreateDtos, role \in UserRole : UsersCreate(dto, role)

UsersUpdateCall ==
    /\ last.op = "none"
    /\ \E id \in UserRowIds, dto \in UsersUpdateDtos, role \in UserRole :
           UsersUpdate(id, dto, role)

UsersRemoveCall ==
    /\ last.op = "none"
    /\ \E id \in UserRowIds, role \in UserRole : UsersRemove(id, role)

UsersTaskCreate ==
    /\ CanCall
    /\ \E u \in DOMAIN users.rows \cap UserIds, c \in DOMAIN users.rows \cap UserIds :
           Create(Dto(<<"a">>, <<COMPLETED>>, <<0>>, <<MaxTime>>, <<u>>), c, 0, NoFault)

NextUsers ==
    \/ UsersCreateCall
    \/ UsersUpdateCall
    \/ UsersRemoveCall
    \/ UsersTaskCreate
    \/ Return
    \/ handleUpdateAvailability

SpecUsers == Init /\ [][NextUsers]_vars

-----------------------------------------------------------------------------
(* SpecJobs: an unreliable queue.  Jobs are handed to the processor in any *)
(* order, may be lost before they are handled, and may be queued twice.    *)

RemoveAt(q, k) == [i \in 1..(Len(q) - 1) |-> IF i < k THEN q[i] ELSE q[i + 1]]

JobDelivered ==
    /\ \E k \in DOMAIN queue :
           LET o == handleUpdateAvailabilityOutcome(tasks, queue[k], k)
           IN  /\ tasks' = o.tasks
               /\ processed' = o.result
               /\ queue' = RemoveAt(queue, k)
    /\ UNCHANGED <<nextId, last, inflight, users, gateway, notificationsStore>>

JobLost ==
    /\ \E k \in DOMAIN queue : queue' = RemoveAt(queue, k)
    /\ UNCHANGED <<tasks, nextId, last, inflight, users, gateway, processed, notificationsStore>>

JobDuplicated ==
    /\ Len(queue) < MaxQueue
    /\ \E k \in DOMAIN queue : queue' = Append(queue, queue[k])
    /\ UNCHANGED <<tasks, nextId, last, inflight, users, gateway, processed, notificationsStore>>

NextJobs ==
    \/ ListingCreate
    \/ ListingUpdate
    \/ SchedRemove
    \/ Return
    \/ JobDelivered
    \/ JobLost
    \/ JobDuplicated

SpecJobs == Init /\ [][NextJobs]_vars

-----------------------------------------------------------------------------
(* SpecClient: the client's notification store.  Notifications arrive and  *)
(* the user marks, removes and clears them, by ids that may be unknown.    *)

AddNotification ==
    /\ Len(notificationsStore.notifications) < MaxNotif
    /\ \E id \in NotifIds :
           notificationsStore' = addNotification(notificationsStore, id)
    /\ UNCHANGED <<tasks, nextId, queue, last, inflight, users, gateway, processed>>

MarkAsRead ==
    /\ \E id \in NotifIds \cup {0} :
           notificationsStore' = markAsRead(notificationsStore, id)
    /\ UNCHANGED <<tasks, nextId, queue, last, inflight, users, gateway, processed>>

MarkAllAsRead ==
    /\ notificationsStore' = markAllAsRead(notificationsStore)
    /\ UNCHANGED <<tasks, nextId, queue, last, inflight, users, gateway, processed>>

RemoveNotification ==
    /\ \E id \in NotifIds \cup {0} :
           notificationsStore' = removeNotification(notificationsStore, id)
    /\ UNCHANGED <<tasks, nextId, queue, last, inflight, users, gateway, processed>>

ClearAll ==
    /\ notificationsStore' = clearAll(notificationsStore)
    /\ UNCHANGED <<tasks, nextId, queue, last, inflight, users, gateway, processed>>

NextClient ==
    \/ AddNotification
    \/ MarkAsRead
    \/ MarkAllAsRead
    \/ RemoveNotification
    \/ ClearAll

SpecClient == Init /\ [][NextClient]_vars

-----------------------------------------------------------------------------
(* SpecGateway: sockets connect with any token, disconnect, and users are  *)
(* notified, in any order.  A socket that has closed may be replaced by a  *)
(* new one.                                                                 *)

GatewayConnect ==
    /\ \E s \in SocketIds, token \in HandshakeTokens :
           /\ ~gateway.sockets[s].open
           /\ gateway' = handleConnection(gateway, s, token)
    /\ UNCHANGED <<tasks, nextId, queue, last, inflight, users, processed, notificationsStore>>

GatewayDisconnect ==
    /\ \E s \in SocketIds :
           /\ gateway.sockets[s].open
           /\ gateway' = handleDisconnect(gateway, s)
    /\ UNCHANGED <<tasks, nextId, queue, last, inflight, users, processed, notificationsStore>>

GatewayNotify ==
    /\ \E u \in UserIds : gateway' = notifyUser(gateway, u, "task:created")
    /\ UNCHANGED <<tasks, nextId, queue, last, inflight, users, processed, notificationsStore>>

NextGateway ==
    \/ GatewayConnect
    \/ GatewayDisconnect
    \/ GatewayNotify

SpecGateway == Init /\ [][NextGateway]_vars

-----------------------------------------------------------------------------
(* SpecRace: concurrent calls.  A call runs to its next await (a query, a  *)
(* write, an enqueue, a reload) and then any other call may run.           *)

Done(c, error, reason) == [c EXCEPT !.pc = "done", !.error = error, !.reason = reason]

(* the call has issued these store, queue or gateway operations *)
Issued(c, events) == [c EXCEPT !.log = c.log \o events]

Repeat(n, event) == [k \in 1..n |-> event]

(* create: validation, then the overlap query *)
CreateCheckStep(store, dto, callerId, now) ==
    LET c == Ctx("create", "checked", 0, dto, callerId, "none", <<>>, 0, "none",
                 <<>>, <<>>, NoError, "")
        v == validateTaskCreationData(dto, now)
        q == Issued(c, <<"checkOverlap">>)
    IN  IF v /= "ok" THEN Done(c, TaskValidationException, v)
        ELSE IF checkOverlap(store, dto.assignedUserId[1], dto.startDate[1],
                             dto.endDate[1], <<>>)
        THEN Done(q, TaskValidationException, OverlapReason)
        ELSE [q EXCEPT !.task = buildTaskEntityForCreation(dto, callerId)]

(* the entity and the captured values of an update that may go on to save *)
UpdatePrepared(c) ==
    LET built == buildTaskEntityForUpdate(c.task, c.dto, c.callerId)
    IN  [c EXCEPT !.pc = "checked",
                  !.oldAssignedUserId = c.task.assignedUserId,
                  !.oldStatus = c.task.status,
                  !.task = ObjectAssign(built.task, built.updates)]

(* as LoadStep, with reassign going on to its save without the overlap query *)
LoadStep_ReassignUnchecked(store, op, id, dto, callerId, role) ==
    LET c == Ctx(op, "loaded", id, dto, callerId, role, <<>>, 0, "none",
                 <<>>, <<>>, NoError, "")
    IN  IF id \notin DOMAIN store
        THEN Done(c, TaskNotFoundException, "not found")
        ELSE
        LET l == [c EXCEPT !.task = store[id]]
            perm == validateTaskUpdatePermissions(store[id], dto, role, callerId)
            v == validateTaskReassignmentData(dto)
            task == applyTaskReassignment(store[id], dto, <<>>)
        IN  CASE op = "update" ->
                    IF perm /= "ok" THEN Done(l, TaskPermissionException, perm)
                    ELSE IF requiresOverlapValidation(dto) THEN l
                    ELSE UpdatePrepared(l)
              [] op = "reassign" ->
                    IF v /= "ok" THEN Done(l, TaskValidationException, v)
                    ELSE [l EXCEPT !.pc = "checked",
                                   !.oldAssignedUserId = task.assignedUserId,
                                   !.task = ObjectAssign(task,
                                       buildTaskEntityForReassignment(task, dto,
                                                                      callerId))]
              [] OTHER -> [l EXCEPT !.pc = "checked",
                                    !.oldAssignedUserId = store[id].assignedUserId]

(* update, reassign, remove: findOne, and the checks that need no query *)
LoadStep(store, op, id, dto, callerId, role) ==
    LET c == Ctx(op, "loaded", id, dto, callerId, role, <<>>, 0, "none",
                 <<>>, <<>>, NoError, "")
    IN  IF id \notin DOMAIN store
        THEN Done(c, TaskNotFoundException, "not found")
        ELSE
        LET l == [c EXCEPT !.task = store[id]]
            perm == validateTaskUpdatePermissions(store[id], dto, role, callerId)
            v == validateTaskReassignmentData(dto)
        IN  CASE op = "update" ->
                    IF perm /= "ok" THEN Done(l, TaskPermissionException, perm)
                    ELSE IF requiresOverlapValidation(dto) THEN l
                    ELSE UpdatePrepared(l)
              [] op = "reassign" ->
                    IF v /= "ok" THEN Done(l, TaskValidationException, v) ELSE l
              [] OTHER -> [l EXCEPT !.pc = "checked",
                                    !.oldAssignedUserId = store[id].assignedUserId]

(* update, reassign: the overlap query, against the store as it is now *)
CheckStep(store, c) ==
    LET range == calculateEffectiveDateRange(c.task, c.dto)
        checkedUser == IF Present(c.dto.assignedUserId)
                       THEN c.dto.assignedUserId[1] ELSE c.task.assignedUserId
        task == applyTaskReassignment(c.task, c.dto, <<>>)
        q == Issued(c, <<"checkOverlap">>)
    IN  IF c.op = "update"
        THEN IF checkOverlap(store, checkedUser, range.startDate,
                             range.endDate, <<c.id>>)
             THEN Done(q, TaskValidationException, OverlapReason)
             ELSE UpdatePrepared(q)
        ELSE IF checkOverlap(store, c.dto.assignedUserId[1], c.task.startDate,
                             c.task.endDate, <<c.id>>)
             THEN Done(q, TaskValidationException, OverlapReason)
             ELSE [q EXCEPT !.pc = "checked",
                            !.oldAssignedUserId = task.assignedUserId,
                            !.task = ObjectAssign(task,
                                buildTaskEntityForReassignment(task, c.dto,
                                                               c.callerId))]

(* the write of a call that has passed its checks *)
WriteStep(store, nid, c) ==
    CASE c.op = "create" -> repositoryCreate(store, nid, c.task)
      [] c.op = "remove" -> repositoryDelete(store, c.id)
      [] OTHER -> repositorySave(store, c.id, c.task)

(* after the write: update reloads, then enqueues; the others enqueue *)
EnqueueStep(store, c) ==
    LET q == CASE c.op = "update" ->
                    handleAvailabilityUpdates(c.dto, c.oldAssignedUserId,
                                              store[c.id].assignedUserId, NoFault)
               [] c.op = "reassign" ->
                    IF c.oldAssignedUserId /= c.task.assignedUserId
                    THEN queueAvailabilityUpdate(
                             queueAvailabilityUpdate(<<>>, c.task.assignedUserId,
                                                     NoFault).jobs,
                             c.oldAssignedUserId, NoFault)
                    ELSE queueAvailabilityUpdate(<<>>, c.task.assignedUserId,
                                                 NoFault)
               [] c.op = "remove" ->
                    queueAvailabilityUpdate(<<>>, c.oldAssignedUserId, NoFault)
               [] OTHER ->
                    queueAvailabilityUpdate(<<>>, c.task.assignedUserId, NoFault)
    IN  IF c.op = "update" /\ c.id \notin DOMAIN store
        THEN Done(c, TaskOperationException, "task not found after operation")
        ELSE IF c.op = "update"
        THEN [Issued(c, Repeat(Len(q.jobs), "enqueue")) EXCEPT
                  !.pc = "enqueued", !.jobs = q.jobs, !.task = store[c.id]]
        ELSE [Issued(c, Repeat(Len(q.jobs), "enqueue")) EXCEPT
                  !.pc = "enqueued", !.jobs = q.jobs]

(* create and reassign reload, then notify; update and remove notify *)
NotifyStep(store, c) ==
    LET n == CASE c.op = "create" -> notifyTaskCreated(<<>>, store[c.id], NoFault)
               [] c.op = "update" ->
                    handleUpdateNotifications(c.task, c.dto, c.oldStatus, NoFault)
               [] c.op = "reassign" ->
                    notifyTaskReassigned(<<>>, store[c.id], c.oldAssignedUserId,
                                         NoFault)
               [] OTHER -> notifyTaskDeleted(<<>>, c.task, NoFault)
    IN  IF c.op \in {"create", "reassign"} /\ c.id \notin DOMAIN store
        THEN Done(c, TaskOperationException, "task not found after operation")
        ELSE [Done(Issued(c, Repeat(Len(n.notes), "notify")), NoError, "")
                 EXCEPT !.notes = n.notes]

CreatesInFlight ==
    Cardinality({p \in Procs : /\ inflight[p].op = "create"
                               /\ inflight[p].pc = "checked"})

RaceCreate(p, dto, callerId, now) ==
    /\ inflight[p].pc = "idle"
    /\ nextId + CreatesInFlight <= MaxId
    /\ inflight' = [inflight EXCEPT ![p] = CreateCheckStep(tasks, dto, callerId, now)]
    /\ UNCHANGED <<tasks, nextId, queue, last, users, gateway, processed, notificationsStore>>

RaceLoad(p, op, id, dto, callerId, role) ==
    /\ inflight[p].pc = "idle"
    /\ inflight' = [inflight EXCEPT ![p] = LoadStep(tasks, op, id, dto, callerId, role)]
    /\ UNCHANGED <<tasks, nextId, queue, last, users, gateway, processed, notificationsStore>>

RaceCheck(p) ==
    /\ inflight[p].pc = "loaded"
    /\ inflight' = [inflight EXCEPT ![p] = CheckStep(tasks, inflight[p])]
    /\ UNCHANGED <<tasks, nextId, queue, last, users, gateway, processed, notificationsStore>>

RaceWrite(p) ==
    /\ inflight[p].pc = "checked"
    /\ tasks' = WriteStep(tasks, nextId, inflight[p])
    /\ nextId' = IF inflight[p].op = "create" THEN nextId + 1 ELSE nextId
    /\ inflight' = [inflight EXCEPT
                       ![p].pc = "written",
                       ![p].log = Append(@, "write"),
                       ![p].id = IF inflight[p].op = "create" THEN nextId
                                 ELSE inflight[p].id]
    /\ UNCHANGED <<queue, last, users, gateway, processed, notificationsStore>>

RaceEnqueue(p) ==
    /\ inflight[p].pc = "written"
    /\ Len(queue) + 2 <= MaxQueue
    /\ inflight' = [inflight EXCEPT ![p] = EnqueueStep(tasks, inflight[p])]
    /\ queue' = queue \o inflight'[p].jobs
    /\ UNCHANGED <<tasks, nextId, last, users, gateway, processed, notificationsStore>>

RaceNotify(p) ==
    /\ inflight[p].pc = "enqueued"
    /\ inflight' = [inflight EXCEPT ![p] = NotifyStep(tasks, inflight[p])]
    /\ UNCHANGED <<tasks, nextId, queue, last, users, gateway, processed, notificationsStore>>

RaceReturn(p) ==
    /\ inflight[p].pc = "done"
    /\ inflight' = [inflight EXCEPT ![p] = IdleCtx]
    /\ UNCHANGED <<tasks, nextId, queue, last, users, gateway, processed, notificationsStore>>

RaceCreateDtos ==
    {Dto(<<"a">>, <<>>, <<0>>, <<MaxTime>>, <<u>>) : u \in UserIds}

RaceUpdateDtos ==
    {Dto(<<>>, <<COMPLETED>>, <<>>, <<>>, <<>>)}
    \cup {Dto(<<>>, <<>>, <<>>, <<>>, <<u>>) : u \in UserIds}

RaceCreateCall ==
    \E p \in Procs, dto \in RaceCreateDtos : RaceCreate(p, dto, MaxUser, 0)

RaceUpdateCall ==
    \E p \in Procs, id \in TaskIds, dto \in RaceUpdateDtos :
        RaceLoad(p, "update", id, dto, MaxUser, ADMIN)

RaceReassignCall ==
    \E p \in Procs, id \in TaskIds, dto \in ReassignDtos :
        RaceLoad(p, "reassign", id, dto, MaxUser, "none")

RaceRemoveCall ==
    \E p \in Procs, id \in TaskIds :
        RaceLoad(p, "remove", id, EmptyDto, 0, "none")

RaceStep ==
    \E p \in Procs :
        \/ RaceCheck(p)
        \/ RaceWrite(p)
        \/ RaceEnqueue(p)
        \/ RaceNotify(p)
        \/ RaceReturn(p)

NextRace ==
    \/ RaceCreateCall
    \/ RaceUpdateCall
    \/ RaceReassignCall
    \/ RaceRemoveCall
    \/ RaceStep
    \/ handleUpdateAvailability

SpecRace == Init /\ [][NextRace]_vars

-----------------------------------------------------------------------------
(* Properties *)

Active(t) == t.status /= COMPLETED

Intersects(s1, e1, s2, e2) == s1 <= e2 /\ e1 >= s2

(* the tasks of `store` that block [s, e] for user u *)
Blocking(store, u, s, e) ==
    {i \in DOMAIN store : /\ store[i].assignedUserId = u
                          /\ Active(store[i])
                          /\ Intersects(store[i].startDate, store[i].endDate, s, e)}

Handled(op) == last.op = op
Succeeded == last.error = NoError

(* C1: with calls handled one at a time, no user ever holds two            *)
(* non-completed tasks whose windows intersect (boundaries included).      *)
C1_NoOverlap ==
    \A i \in DOMAIN tasks, j \in DOMAIN tasks :
        (/\ i /= j
         /\ tasks[i].assignedUserId = tasks[j].assignedUserId
         /\ Active(tasks[i]) /\ Active(tasks[j]))
        => ~Intersects(tasks[i].startDate, tasks[i].endDate,
                       tasks[j].startDate, tasks[j].endDate)

(* C2: nothing stands between a passed overlap check and the write: the   *)
(* insert of a create that passed its check commits its row whatever the  *)
(* table holds by then, so two interleaved creates for one user and one    *)
(* window can both commit.                                                 *)
C2_CheckedCreateAlwaysCommits ==
    [][\A p \in Procs :
          (/\ inflight[p].op = "create" /\ inflight[p].pc = "checked"
           /\ inflight'[p].pc = "written")
          => /\ inflight'[p].id \notin DOMAIN tasks
             /\ DOMAIN tasks' = DOMAIN tasks \cup {inflight'[p].id}
             /\ tasks'[inflight'[p].id] = inflight[p].task]_vars

(* two creates, each past its check and its write, left one user with two *)
(* non-completed tasks over intersecting windows                           *)
C2_Witness ==
    \E p \in Procs, q \in Procs :
        /\ p /= q
        /\ inflight[p].op = "create" /\ inflight[q].op = "create"
        /\ inflight[p].pc \in {"written", "enqueued", "done"}
        /\ inflight[q].pc \in {"written", "enqueued", "done"}
        /\ inflight[p].error = NoError /\ inflight[q].error = NoError
        /\ inflight[p].id \in DOMAIN tasks /\ inflight[q].id \in DOMAIN tasks
        /\ LET a == tasks[inflight[p].id]
               b == tasks[inflight[q].id]
           IN  /\ a.assignedUserId = b.assignedUserId
               /\ Active(a) /\ Active(b)
               /\ Intersects(a.startDate, a.endDate, b.startDate, b.endDate)

(* C3: on every store, checkOverlap(u, s, e, x) is true exactly when some  *)
(* non-completed task of u other than x has startDate <= e, endDate >= s.  *)
C3_CheckOverlapIff ==
    last.op = "none" =>
    \A u \in UserIds, s \in Times, e \in Times, x \in Opt(TaskIds) :
        checkOverlap(tasks, u, s, e, x)
        <=> \E i \in DOMAIN tasks :
                /\ tasks[i].assignedUserId = u
                /\ tasks[i].status /= COMPLETED
                /\ (Present(x) => i /= x[1])
                /\ tasks[i].startDate <= e
                /\ tasks[i].endDate >= s

(* a store, between calls, where one user holds a completed task and a     *)
(* non-completed one over the same window: the check reports the window    *)
(* taken, and free once the non-completed task is the excluded one         *)
C3_Witness ==
    /\ last.op = "none"
    /\ \E i \in DOMAIN tasks, j \in DOMAIN tasks :
           /\ tasks[i].assignedUserId = tasks[j].assignedUserId
           /\ Active(tasks[i]) /\ ~Active(tasks[j])
           /\ tasks[i].startDate = tasks[j].startDate
           /\ tasks[i].endDate = tasks[j].endDate
           /\ checkOverlap(tasks, tasks[i].assignedUserId, tasks[i].startDate,
                           tasks[i].endDate, <<>>)
           /\ ~checkOverlap(tasks, tasks[i].assignedUserId, tasks[i].startDate,
                            tasks[i].endDate, <<i>>)

StructurallyValid(dto, now) ==
    /\ Present(dto.title) /\ dto.title[1] \notin {"", " "}
    /\ Present(dto.startDate) /\ Present(dto.endDate)
    /\ Present(dto.assignedUserId)
    /\ dto.startDate[1] < dto.endDate[1]
    /\ dto.startDate[1] >= now

(* C4: a structurally valid create succeeds and adds exactly one task iff  *)
(* no non-completed task of the assignee intersects the window; otherwise  *)
(* it fails and the store is as before.                                    *)
C4_CreateIffFree ==
    (Handled("create") /\ StructurallyValid(last.dto, last.now))
    => IF Blocking(last.pre, last.dto.assignedUserId[1],
                   last.dto.startDate[1], last.dto.endDate[1]) = {}
       THEN /\ Succeeded
            /\ last.id \notin DOMAIN last.pre
            /\ DOMAIN tasks = DOMAIN last.pre \cup {last.id}
            /\ \A i \in DOMAIN last.pre : tasks[i] = last.pre[i]
            /\ tasks[last.id].assignedUserId = last.dto.assignedUserId[1]
            /\ tasks[last.id].startDate = last.dto.startDate[1]
            /\ tasks[last.id].endDate = last.dto.endDate[1]
       ELSE /\ ~Succeeded
            /\ tasks = last.pre

(* a create succeeded over the very window of a completed task of the same user *)
C4_Witness ==
    /\ Handled("create") /\ Succeeded
    /\ \E i \in DOMAIN last.pre :
           /\ last.pre[i].assignedUserId = last.dto.assignedUserId[1]
           /\ last.pre[i].status = COMPLETED
           /\ last.pre[i].startDate = last.dto.startDate[1]
           /\ last.pre[i].endDate = last.dto.endDate[1]

DomainErrors ==
    {TaskValidationException, TaskPermissionException, TaskNotFoundException}

(* C5: a call rejected by validation, permission, not-found or overlap     *)
(* leaves the table and the queue as they were and notifies nobody.        *)
C5_RejectedCallLeavesNoTrace ==
    [][(/\ last.op = "none" /\ last'.op /= "none"
        /\ last'.error \in DomainErrors)
       => (/\ tasks' = tasks /\ nextId' = nextId /\ queue' = queue
           /\ last'.notes = <<>>)]_vars

(* a reassign was rejected for overlap and the task is still with its user *)
C5_Witness ==
    /\ Handled("reassign") /\ last.reason = OverlapReason
    /\ tasks[last.id].assignedUserId /= last.dto.assignedUserId[1]
    /\ tasks[last.id].assignedUserId = last.pre[last.id].assignedUserId

(* C6: a successful reassign notifies the new assignee with task:reassigned *)
(* exactly when the assignee differs from the one before the call.         *)
C6_ReassignNotifiesIffChanged ==
    (Handled("reassign") /\ Succeeded)
    => last.notes =
         IF last.dto.assignedUserId[1] /= last.pre[last.id].assignedUserId
         THEN <<Note("task:reassigned", last.dto.assignedUserId[1])>>
         ELSE <<>>

(* C7: a successful reassign from U1 to another user U2 enqueues a job for *)
(* U2 and one for U1; one that keeps the assignee enqueues a single job.   *)
C7_ReassignRecomputesBoth ==
    (Handled("reassign") /\ Succeeded)
    => LET old == last.pre[last.id].assignedUserId
           new == last.dto.assignedUserId[1]
       IN  IF old /= new
           THEN /\ \E k \in DOMAIN last.jobs : last.jobs[k] = new
                /\ \E k \in DOMAIN last.jobs : last.jobs[k] = old
           ELSE last.jobs = <<new>>

Reliable(env) == [env EXCEPT !.queue = FALSE, !.notify = FALSE]

StoreFault(env) ==
    env.overlapQuery \/ env.write \/ env.reload \/ env.reloadMissing

(* the outcome of the handled call had the queue and the gateway not failed *)
OutcomeIfReliable ==
    CASE last.op = "create" ->
            CreateOutcome(last.pre, last.id, last.dto, last.callerId, last.now,
                          Reliable(last.env))
      [] last.op = "update" ->
            UpdateOutcome(last.pre, last.id, last.dto, last.callerId, last.role,
                          Reliable(last.env))
      [] last.op = "reassign" ->
            ReassignOutcome(last.pre, last.id, last.dto, last.callerId,
                            Reliable(last.env))
      [] OTHER -> RemoveOutcome(last.pre, last.id, Reliable(last.env))

(* C8: a failing enqueue or a failing notifyUser never fails a call: the   *)
(* call returns what it returns when both work, with the same table, and   *)
(* a call that wrote to the table under no store fault returns success.    *)
C8_SideEffectFailuresSwallowed ==
    last.op /= "none"
    => /\ last.error = OutcomeIfReliable.error
       /\ tasks = OutcomeIfReliable.tasks
       /\ (~StoreFault(last.env) /\ tasks /= last.pre) => Succeeded

(* a call whose enqueue and notification both failed, and which succeeded  *)
(* with its write kept                                                     *)
C8_Witness ==
    /\ last.op /= "none" /\ last.env.queue /\ last.env.notify
    /\ Succeeded /\ tasks /= last.pre
    /\ last.jobs = <<>> /\ last.notes = <<>>
    /\ OutcomeIfReliable.jobs /= <<>> /\ OutcomeIfReliable.notes /= <<>>

(* C9: a USER caller may update the status, alone, of a task assigned to   *)
(* them; any other field, or a task of someone else, is TaskPermission-    *)
(* Exception with nothing changed.  ADMIN and MANAGER are never refused.   *)
C9_UserRoleUpdates ==
    (Handled("update") /\ last.id \in DOMAIN last.pre)
    => LET own == last.pre[last.id].assignedUserId = last.callerId
           keys == Keys(last.dto)
       IN  /\ (last.role = USER /\ own /\ keys = {"status"}) => Succeeded
           /\ (last.role = USER /\ (~own \/ keys \ {"status"} /= {}))
              => /\ last.error = TaskPermissionException
                 /\ tasks = last.pre
                 /\ last.jobs = <<>> /\ last.notes = <<>>
           /\ last.role \in {ADMIN, MANAGER}
              => last.error /= TaskPermissionException

(* a USER caller changed the status of their own task *)
C9_Witness ==
    /\ Handled("update") /\ last.role = USER /\ Succeeded
    /\ Keys(last.dto) = {"status"}
    /\ last.pre[last.id].assignedUserId = last.callerId
    /\ tasks[last.id].status /= last.pre[last.id].status

C11_Remove ==
    Handled("remove")
    => IF last.id \in DOMAIN last.pre
       THEN LET U == last.pre[last.id].assignedUserId
            IN  /\ Succeeded
                /\ DOMAIN tasks = DOMAIN last.pre \ {last.id}
                /\ \A i \in DOMAIN tasks : tasks[i] = last.pre[i]
                /\ last.jobs = <<U>>
                /\ last.notes = <<Note("task:deleted", U)>>
       ELSE /\ last.error = TaskNotFoundException
            /\ tasks = last.pre
            /\ last.jobs = <<>> /\ last.notes = <<>>

(* a task that one user had assigned to another was removed, another task  *)
(* staying in the table                                                     *)
C11_Witness ==
    /\ Handled("remove") /\ Succeeded
    /\ last.id \in DOMAIN last.pre
    /\ last.pre[last.id].assignedById /= <<last.pre[last.id].assignedUserId>>
    /\ last.notes = <<Note("task:deleted", last.pre[last.id].assignedUserId)>>
    /\ tasks /= <<>>

(* C12, as stated: every successful update enqueues a job for the task's   *)
(* resulting assignee, whatever the request changed, and one for the       *)
(* previous assignee when the assignee changed.                            *)
C12_UpdateAlwaysRecomputes ==
    (Handled("update") /\ Succeeded)
    => LET old == last.pre[last.id].assignedUserId
           new == tasks[last.id].assignedUserId
       IN  /\ \E k \in DOMAIN last.jobs : last.jobs[k] = new
           /\ old /= new => \E k \in DOMAIN last.jobs : last.jobs[k] = old

(* C12, as the code has it: a successful update enqueues a job for the     *)
(* resulting assignee exactly when the request carries startDate, endDate  *)
(* or assignedUserId, followed by one for the previous assignee when the   *)
(* assignee changed; a request of title or status alone enqueues nothing.  *)
C12_UpdateRecomputesWhenTouched ==
    (Handled("update") /\ Succeeded)
    => LET old == last.pre[last.id].assignedUserId
           new == tasks[last.id].assignedUserId
           touched == Keys(last.dto) \cap {"startDate", "endDate", "assignedUserId"} /= {}
       IN  last.jobs = IF ~touched THEN <<>>
                       ELSE IF old /= new THEN <<new, old>>
                       ELSE <<new>>

(* an update moved a task to another user and queued a job for each of the two *)
C12_Witness ==
    /\ Handled("update") /\ Succeeded
    /\ tasks[last.id].assignedUserId /= last.pre[last.id].assignedUserId
    /\ last.jobs = <<tasks[last.id].assignedUserId,
                     last.pre[last.id].assignedUserId>>

(* C13: every task in the table has startDate < endDate. *)
C13_WindowInvariant ==
    \A i \in DOMAIN tasks : tasks[i].startDate < tasks[i].endDate

(* the handled call ran its overlap query, and the query found a task *)
ConflictReported ==
    CASE last.op = "create" ->
            /\ validateTaskCreationData(last.dto, last.now) = "ok"
            /\ checkOverlap(last.pre, last.dto.assignedUserId[1],
                            last.dto.startDate[1], last.dto.endDate[1], <<>>)
      [] last.op = "update" ->
            /\ last.id \in DOMAIN last.pre
            /\ validateTaskUpdatePermissions(last.pre[last.id], last.dto,
                                             last.role, last.callerId) = "ok"
            /\ requiresOverlapValidation(last.dto)
            /\ LET t == last.pre[last.id]
                   range == calculateEffectiveDateRange(t, last.dto)
               IN  checkOverlap(last.pre,
                                IF Present(last.dto.assignedUserId)
                                THEN last.dto.assignedUserId[1]
                                ELSE t.assignedUserId,
                                range.startDate, range.endDate, <<last.id>>)
      [] last.op = "reassign" ->
            /\ last.id \in DOMAIN last.pre
            /\ validateTaskReassignmentData(last.dto) = "ok"
            /\ checkOverlap(last.pre, last.dto.assignedUserId[1],
                            last.pre[last.id].startDate,
                            last.pre[last.id].endDate, <<last.id>>)
      [] OTHER -> FALSE

(* C16: a create, update or reassign whose overlap check reports a         *)
(* conflict fails with an error of a kind other than the one that malformed *)
(* input gets (TaskValidationException).                                    *)
C16_OverlapErrorDistinct ==
    ConflictReported
    => /\ ~Succeeded
       /\ last.error /= TaskValidationException

(* what C14 lists as a malformed creation request *)
Malformed(dto, now) ==
    \/ ~Present(dto.title) \/ dto.title[1] \in {"", " "}
    \/ ~Present(dto.startDate) \/ ~Present(dto.endDate)
    \/ ~Present(dto.assignedUserId)
    \/ dto.startDate[1] >= dto.endDate[1]
    \/ dto.startDate[1] < now

(* C14: a create whose title is empty or blank, whose startDate, endDate   *)
(* or assignedUserId is missing, whose startDate >= endDate, or whose      *)
(* startDate is before the current time, is TaskValidationException with   *)
(* nothing stored, enqueued or notified; a well-formed one whose startDate *)
(* equals the current time passes validation (only an overlap refuses it). *)
C14_CreateValidation ==
    Handled("create")
    => /\ Malformed(last.dto, last.now)
          => /\ last.error = TaskValidationException
             /\ last.reason /= OverlapReason
             /\ tasks = last.pre
             /\ last.jobs = <<>> /\ last.notes = <<>>
       /\ (~Malformed(last.dto, last.now) /\ last.dto.startDate[1] = last.now)
          => \/ Succeeded /\ last.id \in DOMAIN tasks
             \/ last.reason = OverlapReason

(* a create whose startDate is exactly the current time was stored *)
C14_Witness ==
    /\ Handled("create") /\ Succeeded
    /\ last.dto.startDate[1] = last.now
    /\ last.id \in DOMAIN tasks

Rank(event) ==
    CASE event = "checkOverlap" -> 0
      [] event = "write" -> 1
      [] event = "enqueue" -> 2
      [] OTHER -> 3

(* the call is one whose write must follow an overlap check *)
NeedsCheck(c) ==
    \/ c.op \in {"create", "reassign"}
    \/ c.op = "update" /\ requiresOverlapValidation(c.dto)

(* C15: within one call, whatever other calls do in between: a create, a   *)
(* reassign, and an update that carries assignedUserId, startDate or       *)
(* endDate, has completed its overlap query before it issues its write;    *)
(* and the write comes before every enqueue, every enqueue before every    *)
(* notification.                                                            *)
C15_OrderWithinCall ==
    \A p \in Procs :
        LET c == inflight[p]
            log == c.log
        IN  /\ \A k \in DOMAIN log :
                   (log[k] = "write" /\ NeedsCheck(c))
                   => \E j \in 1..(k - 1) : log[j] = "checkOverlap"
            /\ \A j \in DOMAIN log, k \in DOMAIN log :
                   j < k => Rank(log[j]) <= Rank(log[k])
            /\ \A k \in DOMAIN log :
                   log[k] \in {"enqueue", "notify"}
                   => \E j \in 1..(k - 1) : log[j] = "write"
            /\ (c.pc = "done" /\ c.error = NoError)
               => \E k \in DOMAIN log : log[k] = "write"

(* two calls ran interleaved and both completed, one of them a create that *)
(* issued, in this order, its overlap query, its insert, its enqueue and    *)
(* its notification                                                         *)
C15_Witness ==
    \E p \in Procs, q \in Procs :
        /\ p /= q
        /\ inflight[p].op = "create" /\ inflight[p].pc = "done"
        /\ inflight[p].log = <<"checkOverlap", "write", "enqueue", "notify">>
        /\ inflight[q].op = "update" /\ inflight[q].pc = "done"
        /\ inflight[q].error = NoError
        /\ "write" \in {inflight[q].log[k] : k \in DOMAIN inflight[q].log}

(* the handled call got as far as its overlap query *)
QueryRan ==
    CASE last.op = "create" ->
            validateTaskCreationData(last.dto, last.now) = "ok"
      [] last.op = "update" ->
            /\ last.id \in DOMAIN last.pre
            /\ validateTaskUpdatePermissions(last.pre[last.id], last.dto,
                                             last.role, last.callerId) = "ok"
            /\ requiresOverlapValidation(last.dto)
      [] last.op = "reassign" ->
            /\ last.id \in DOMAIN last.pre
            /\ validateTaskReassignmentData(last.dto) = "ok"
      [] OTHER -> FALSE

(* C17: when the store fails during the overlap query of a create, update  *)
(* or reassign, the call ends in TaskInfrastructureException (the query    *)
(* never answers "no overlap"), and nothing is written, enqueued or         *)
(* notified.                                                                *)
C17_QueryFailureAborts ==
    (QueryRan /\ last.env.overlapQuery)
    => /\ last.error = TaskInfrastructureException
       /\ tasks = last.pre
       /\ last.jobs = <<>> /\ last.notes = <<>>

(* the store failed under the overlap query of a reassign to a user whose  *)
(* window was free, with nothing else failing: the task stayed where it was *)
C17_Witness ==
    /\ Handled("reassign") /\ QueryRan
    /\ last.env = [NoFault EXCEPT !.overlapQuery = TRUE]
    /\ last.dto.assignedUserId[1] /= last.pre[last.id].assignedUserId
    /\ ~checkOverlap(last.pre, last.dto.assignedUserId[1],
                     last.pre[last.id].startDate, last.pre[last.id].endDate,
                     <<last.id>>)
    /\ last.error = TaskInfrastructureException
    /\ tasks = last.pre

(* the handled call got as far as its write to the tasks table *)
WriteIssued ==
    /\ ~last.env.overlapQuery
    /\ CASE last.op \in {"create", "update", "reassign"} ->
                /\ ~ConflictReported
                /\ \/ QueryRan
                   \/ /\ last.op = "update"
                      /\ last.id \in DOMAIN last.pre
                      /\ validateTaskUpdatePermissions(
                             last.pre[last.id], last.dto, last.role,
                             last.callerId) = "ok"
         [] last.op = "remove" -> last.id \in DOMAIN last.pre
         [] OTHER -> FALSE

(* C18: when the write of a create, update, reassign or remove fails, the  *)
(* call ends in TaskInfrastructureException, the table is as before, no    *)
(* job is enqueued and nobody is notified.                                  *)
C18_WriteFailure ==
    (WriteIssued /\ last.env.write)
    => /\ last.error = TaskInfrastructureException
       /\ tasks = last.pre
       /\ last.jobs = <<>> /\ last.notes = <<>>

(* C19: whatever status, assignedUserId and search filters a caller of    *)
(* role USER supplies, findAll returns stored tasks assigned to that       *)
(* caller and no others, and changes nothing.                              *)
C19_ListingScoped ==
    (Handled("findAll") /\ last.role = USER)
    => /\ last.result \subseteq DOMAIN tasks
       /\ \A i \in last.result : tasks[i].assignedUserId = last.callerId
       /\ tasks = last.pre

(* a USER caller asked for the tasks of another user, who has one, and got *)
(* nothing; the same listing without that filter returns a task of the     *)
(* caller's own                                                             *)
C19_Witness ==
    /\ Handled("findAll") /\ last.role = USER
    /\ Present(last.arg.assignedUserId)
    /\ last.arg.assignedUserId[1] /= last.callerId
    /\ \E i \in DOMAIN tasks : tasks[i].assignedUserId = last.arg.assignedUserId[1]
    /\ last.result = {}
    /\ findTasksWithComplexFilter(
           tasks, [last.arg EXCEPT !.assignedUserId = <<>>]) /= {}

(* C20: removing a user never deletes a row whose role is admin, whoever   *)
(* calls, and a manager caller never deletes a manager row: both fail     *)
(* (BadRequestException) with the users table as it was; removing an id    *)
(* that is not in the table is NotFoundException.                          *)
C20_UserRemoval ==
    Handled("users.remove")
    => LET rows == last.preUsers.rows
       IN  /\ last.id \notin DOMAIN rows
              => last.error = NotFoundException /\ users = last.preUsers
           /\ (last.id \in DOMAIN rows /\ rows[last.id].role = ADMIN)
              => last.error = BadRequestException /\ users = last.preUsers
           /\ (/\ last.id \in DOMAIN rows /\ rows[last.id].role = MANAGER
               /\ last.role = MANAGER)
              => last.error = BadRequestException /\ users = last.preUsers

(* a manager tried to remove another manager and was refused, in a table   *)
(* that also holds an admin other than the seeded one                       *)
C20_Witness ==
    /\ Handled("users.remove") /\ last.role = MANAGER
    /\ last.id \in DOMAIN last.preUsers.rows
    /\ last.preUsers.rows[last.id].role = MANAGER
    /\ last.error = BadRequestException
    /\ users = last.preUsers
    /\ \E i \in DOMAIN users.rows : i /= 1 /\ users.rows[i].role = ADMIN

(* the rows of a users table whose role is admin or manager *)
Privileged(table) ==
    {<<i, table.rows[i]>> : i \in {j \in DOMAIN table.rows : table.rows[j].role \in {ADMIN, MANAGER}}}

(* C21: a user create, update or remove issued by a manager leaves the     *)
(* admin and manager rows, and the set of them, as they were.              *)
C21_ManagersAffectOrdinaryUsers ==
    (last.op \in {"users.create", "users.update", "users.remove"} /\ last.role = MANAGER)
    => Privileged(users) = Privileged(last.preUsers)

(* no two rows of the users table hold the same email *)
EmailsUnique(table) ==
    \A i \in DOMAIN table.rows, j \in DOMAIN table.rows :
        i /= j => table.rows[i].email /= table.rows[j].email

(* the handled user call asks for an email that another row held *)
EmailTaken ==
    /\ last.op \in {"users.create", "users.update"}
    /\ Present(last.arg.email)
    /\ \/ /\ Handled("users.create")
          /\ findByEmail(last.preUsers, last.arg.email[1]) /= {}
       \/ /\ Handled("users.update")
          /\ last.id \in DOMAIN last.preUsers.rows
          /\ findByEmail(last.preUsers, last.arg.email[1]) \ {last.id} /= {}

(* the handled update names the email its row already held *)
EmailKept ==
    /\ Handled("users.update")
    /\ last.id \in DOMAIN last.preUsers.rows
    /\ Present(last.arg.email)
    /\ last.arg.email[1] = last.preUsers.rows[last.id].email

(* the handled user call was stopped by a role rule, which comes before    *)
(* the lookup of the email                                                  *)
RefusedByRole ==
    /\ last.role = MANAGER
    /\ \/ Handled("users.create") /\ last.error = BadRequestException
       \/ Handled("users.update") /\ last.error = ForbiddenException

(* C22, as stated: no two users share an email; a create, or an update     *)
(* that changes the email, to an address another user holds ends in        *)
(* ConflictException with the table unchanged; an update that keeps the    *)
(* row's own email is not a conflict.                                       *)
C22_EmailUniqueConflictAlways ==
    /\ EmailsUnique(users)
    /\ EmailTaken => last.error = ConflictException /\ users = last.preUsers
    /\ EmailKept => last.error /= ConflictException

(* C22, as the code has it: the same, except that a manager's call refused *)
(* by a role rule (a privileged role asked for in create, a privileged     *)
(* target in update) ends in that refusal instead of ConflictException;    *)
(* the table is unchanged either way.                                       *)
C22_EmailUnique ==
    /\ EmailsUnique(users)
    /\ EmailTaken => /\ users = last.preUsers
                     /\ \/ last.error = ConflictException
                        \/ RefusedByRole
    /\ (EmailTaken /\ last.role /= MANAGER) => last.error = ConflictException
    /\ EmailKept => last.error /= ConflictException

(* an update asked for the email of another row and was refused with       *)
(* ConflictException, the table staying as it was                           *)
C22_Witness ==
    /\ Handled("users.update") /\ EmailTaken
    /\ last.error = ConflictException
    /\ users = last.preUsers
    /\ Cardinality(DOMAIN users.rows) >= 2

(* C23: a create, update, reassign or remove that ends in an error has     *)
(* left the tasks table exactly as it was before the call, also when the   *)
(* reload after the write fails or finds nothing.                           *)
C23_AllOrNothing ==
    (last.op \in {"create", "update", "reassign", "remove"} /\ ~Succeeded)
    => tasks = last.pre

(* call c is an update that has sent task:completed for its task *)
SentCompleted(c) ==
    /\ c.op = "update" /\ c.pc = "done"
    /\ \E k \in DOMAIN c.notes : c.notes[k].event = "task:completed"

(* C24: a task's transition to COMPLETED is announced at most once.  No    *)
(* call of SpecRace sets a status back and no id is used twice, so a task  *)
(* makes the transition at most once: no two calls have both sent          *)
(* task:completed for the same task, also when they were interleaved.      *)
C24_CompletedNotifiedOnce ==
    \A p \in Procs, q \in Procs :
        (p /= q /\ SentCompleted(inflight[p]) /\ SentCompleted(inflight[q]))
        => inflight[p].id /= inflight[q].id

(* the handled call is an update of a stored task that carries assignee or *)
(* dates and is allowed by the permission rules                             *)
UpdateChecked ==
    /\ Handled("update")
    /\ last.id \in DOMAIN last.pre
    /\ Keys(last.dto) \cap {"startDate", "endDate", "assignedUserId"} /= {}
    /\ validateTaskUpdatePermissions(last.pre[last.id], last.dto, last.role,
                                     last.callerId) = "ok"

(* C25: an update that touches assignedUserId, startDate or endDate is     *)
(* rejected for overlap exactly when a task other than the one updated,    *)
(* not completed and assigned to the effective assignee (the request's,    *)
(* else the stored one), intersects the effective window (the request's    *)
(* dates where given, else the stored ones).                                *)
C25_NoSelfConflict ==
    UpdateChecked
    => LET old == last.pre[last.id]
           u == IF Present(last.dto.assignedUserId)
                THEN last.dto.assignedUserId[1] ELSE old.assignedUserId
           s == IF Present(last.dto.startDate)
                THEN last.dto.startDate[1] ELSE old.startDate
           e == IF Present(last.dto.endDate)
                THEN last.dto.endDate[1] ELSE old.endDate
       IN  (last.error = TaskValidationException /\ last.reason = OverlapReason)
           <=> Blocking(last.pre, u, s, e) \ {last.id} /= {}

(* an update moved only the end of a non-completed task, whose stored      *)
(* window the new one intersects, while the assignee holds another task;   *)
(* it was accepted                                                          *)
C25_Witness ==
    /\ UpdateChecked /\ Succeeded
    /\ Keys(last.dto) = {"endDate"}
    /\ Active(last.pre[last.id])
    /\ last.dto.endDate[1] /= last.pre[last.id].endDate
    /\ last.dto.endDate[1] >= last.pre[last.id].startDate
    /\ \E i \in DOMAIN last.pre :
           i /= last.id /\ last.pre[i].assignedUserId = last.pre[last.id].assignedUserId

(* C26: a successful reassign stores the requested assignedUserId and the  *)
(* caller's id as assignedById on the reassigned task, and leaves its      *)
(* title, window and status, and every other task, as they were.           *)
C26_ReassignFrame ==
    (Handled("reassign") /\ Succeeded)
    => /\ DOMAIN tasks = DOMAIN last.pre
       /\ \A i \in DOMAIN tasks \ {last.id} : tasks[i] = last.pre[i]
       /\ tasks[last.id] =
              [last.pre[last.id] EXCEPT
                   !.assignedUserId = last.dto.assignedUserId[1],
                   !.assignedById = <<last.callerId>>]

(* a reassign moved a task to another user and replaced its assigner,      *)
(* beside another stored task                                               *)
C26_Witness ==
    /\ Handled("reassign") /\ Succeeded
    /\ tasks[last.id].assignedUserId /= last.pre[last.id].assignedUserId
    /\ tasks[last.id].assignedById /= last.pre[last.id].assignedById
    /\ tasks[last.id].assignedById = <<last.callerId>>
    /\ Cardinality(DOMAIN tasks) >= 2

(* user u has a socket that is open and carries u as its userId *)
HasOpenSocket(u) ==
    \E s \in SocketIds : gateway.sockets[s].open /\ gateway.sockets[s].userId = <<u>>

(* C27: connectedUsers has the key u exactly when some authenticated       *)
(* socket of u is connected, also when u holds several sockets and closes  *)
(* only some of them.                                                       *)
C27_RegistryConsistent ==
    \A u \in UserIds : u \in DOMAIN gateway.connectedUsers <=> HasOpenSocket(u)

(* the token verifies and names user u *)
Names(token, u) == Present(token) /\ token[1].valid /\ token[1].sub = <<u>>

(* the token verifies and names some user *)
Authentic(token) == \E u \in UserIds : Names(token, u)

(* C28: a socket is in connectedUsers or in a room only if its token       *)
(* verified and named a user, and then it is in the room of that user and  *)
(* no other; a socket whose token is missing, invalid or without a user id *)
(* is closed, in no room and not registered; what notifyUser(u, ..) emits  *)
(* reaches only sockets authenticated as u.                                 *)
C28_OnlyVerifiedSocketsJoin ==
    /\ \A s \in SocketIds :
           LET c == gateway.sockets[s]
           IN  /\ (c.open \/ c.rooms /= {})
                  => /\ Authentic(c.token) /\ c.userId = c.token[1].sub
                     /\ c.rooms = {c.userId[1]}
               /\ ~Authentic(c.token)
                  => /\ ~c.open /\ c.rooms = {}
                     /\ \A u \in DOMAIN gateway.connectedUsers :
                            gateway.connectedUsers[u] /= s
    /\ \A u \in DOMAIN gateway.connectedUsers :
           Names(gateway.sockets[gateway.connectedUsers[u]].token, u)
    /\ \A c \in gateway.emitted.sockets :
           Names(c.token, gateway.emitted.to) /\ c.userId = <<gateway.emitted.to>>

(* a notification reached a socket of its user while a socket of another   *)
(* user was open and a socket with a token that does not verify had been   *)
(* turned away                                                              *)
C28_Witness ==
    /\ gateway.emitted.sockets /= {}
    /\ \E s \in SocketIds : /\ gateway.sockets[s].open
                            /\ gateway.sockets[s].userId /= <<gateway.emitted.to>>
    /\ \E s \in SocketIds : /\ Present(gateway.sockets[s].token)
                            /\ ~gateway.sockets[s].token[1].valid
                            /\ Present(gateway.sockets[s].token[1].sub)
                            /\ ~gateway.sockets[s].open

(* a step of the queue or of the processor: every call of the service, and *)
(* its return, writes `last`                                                *)
JobStep == last' = last

(* C29: handling an update-availability job, losing one or queueing one    *)
(* twice, in whatever order, leaves the tasks table as it was, and with it *)
(* the answer of every checkOverlap.                                        *)
C29_JobsOnlyRead ==
    [][JobStep
       => /\ tasks' = tasks
          /\ \A u \in UserIds, s \in Times, e \in Times, x \in Opt(TaskIds) :
                 checkOverlap(tasks', u, s, e, x) = checkOverlap(tasks, u, s, e, x)]_vars

(* the processor was handed a job out of order, for a user who holds a     *)
(* completed task, while the same user's job is still queued                *)
C29_Witness ==
    /\ processed.position > 1
    /\ processed.taskCount >= 1
    /\ \E i \in DOMAIN tasks : /\ tasks[i].assignedUserId = processed.userId
                               /\ tasks[i].status = COMPLETED
    /\ \E k \in DOMAIN queue : queue[k] = processed.userId

(* the stored notifications whose read flag is false *)
Unread(st) == {k \in DOMAIN st.notifications : ~st.notifications[k].read}

(* C30: unreadCount is the number of stored notifications that are not     *)
(* read, and is never negative, after any sequence of addNotification,     *)
(* markAsRead, markAllAsRead, removeNotification and clearAll, with ids    *)
(* that may be unknown or already read.                                     *)
C30_UnreadCount ==
    /\ notificationsStore.unreadCount = Cardinality(Unread(notificationsStore))
    /\ notificationsStore.unreadCount >= 0

(* the store holds a read and an unread notification and counts one *)
C30_Witness ==
    /\ notificationsStore.unreadCount = 1
    /\ \E j \in DOMAIN notificationsStore.notifications,
          k \in DOMAIN notificationsStore.notifications :
           /\ notificationsStore.notifications[j].read
           /\ ~notificationsStore.notifications[k].read

=============================================================================
